---------------------------- MODULE Spec2Model ----------------------------
(***************************************************************************)
(* Model of the boot supervisor of lib/boot (supervisor.go):               *)
(*   - the task scheduler: Supervisor.Start / run / wait / Stop, the       *)
(*     readiness map tasksReady and the shared cancellation context;       *)
(*   - the process supervisor: Supervisor.RunProgram with its two copy     *)
(*     loops, its cancellation watcher and the child process.              *)
(* Every goroutine is a process with a program counter; one action is one  *)
(* atomic step of one goroutine.                                           *)
(***************************************************************************)
EXTENDS Naturals, Integers, Sequences, FiniteSets, TLC

(***************************************************************************)
(* Bounds of the model.                                                    *)
(***************************************************************************)
\* longest task list handed to the scheduler
MaxTasks == 3
\* most background shutdown workers (waitShutdown.Add) started in one run
MaxWorkers == 1
\* the watcher's SIGTERMs are counted up to this number
MaxSigterms == 2
\* the ports nextPort rejects are counted up to this number
MaxRetries == 2

VARIABLES
    \* ---- scheduler (Supervisor) ----
    tasks,          \* the list `tasks` built by run: <<[name, depends]>>
    tasksReady,     \* super.tasksReady: display name -> "open" | "closed"
    closes,         \* history: close() calls executed on each name's channel
    canceled,       \* super.ctx.Err() != nil
    cancelCause,    \* history: who canceled first: "none" | "external" | "task"
    cancelClean,    \* history: the health aggregator was installed by then
    runpc,          \* position of Supervisor.run
    runIdx,         \* loop index of run's spawn loop / of run's wait
    runErr,         \* value returned by run: "none" while running
    healthChecker,  \* super.healthChecker != nil
    waitShutdown,   \* counter of super.waitShutdown
    done,           \* super.done is closed
    tpc,            \* position of each task goroutine
    tIdx,           \* position of each task's own wait(ctx, depends...)
    waitRes,        \* result of each task's own wait: "none" while waiting
    runRet,         \* what task.Run returned: "none" | "nil" | "err"
    wpc,            \* position of each task's background worker
    failLog,        \* the "task failed" log entries, in order
    panicked,       \* the process died of the panic of a close on a closed channel
    afFailure,      \* history: the step of autofillConfig that failed, or "none"
    autofilled,     \* history: autofillConfig has returned nil
    conffile,       \* the file tempdir/config.yml: "absent" | "created" | "written"
    confWrites,     \* history: number of times the configuration was encoded into it
    configfile,     \* super.configfile
    spawned,        \* history: run has started an external program
    osEnviron,      \* os.Environ(), the environment of the supervisor's own process
    \* ---- process supervisor (one call of RunProgram) ----
    rpCtxDone,      \* the ctx given to RunProgram is canceled
    rppc,           \* position of RunProgram
    rpErr,          \* value returned by RunProgram: "none" while running
    rpCtxAtResult,  \* history: ctx.Err() != nil as read at line 482
    exited,         \* RunProgram's local `exited`
    process,        \* cmd.Process != nil
    child,          \* the child: "none" | "running" | "exited" | "reaped"
    childKind,      \* how the child ends: "finite" | "service" | "stubborn"
    childStatus,    \* its exit status: "zero" | "nonzero" | "signaled"
    waitErr,        \* the error of cmd.Wait(): "none" | "nil" | "err"
    held,           \* another process keeps the pipes' write ends open
    pipesClosed,    \* the watcher closed stdout and stderr
    cpOut,          \* the stdout copy loop
    cpErr,          \* the stderr copy loop
    watcher,        \* position of the cancellation watcher
    sigterms,       \* SIGTERMs sent by the watcher (saturating)
    warned,         \* the watcher logged "still waiting ... 5s after SIGTERM"
    polled,         \* history: the watcher found cmd.Process nil and slept
    rpProg,         \* RunProgram's argument prog
    rpArgs,         \* RunProgram's argument args
    rpErrText,      \* the text of the error RunProgram built itself, in pieces
    \* ---- one caller of Supervisor.WaitReady ----
    wrpc,           \* position of WaitReady
    wrRes,          \* what WaitReady returned: "none" | "true" | "false"
    wrPoll,         \* the latest ClusterHealth(): "none" | "ok" | "waiting"
    \* ---- one call of autofillConfig ----
    clusterType,    \* super.ClusterType
    ownDB,          \* super.OwnTemporaryDatabase
    ctrlAddr,       \* super.ControllerAddr
    clusters,       \* how many clusters cfg holds
    cfgIn,          \* the cluster as it was given
    cluster,        \* the local `cluster` being filled in
    cfgOut,         \* cfg.Clusters[ClusterID] once stored: <<>> or <<cluster>>
    afpc,           \* position of autofillConfig
    afErr,          \* the error it returned or panicked with, or "none"
    afIdx,          \* index of the loop over the services
    usedPort,       \* nextPort's usedPort
    portLog,        \* history: the ports nextPort returned, in order
    retries,        \* history: ports nextPort rejected (saturating)
    volTodo,        \* keepstore URLs the volume loop has yet to visit
    dirs,           \* the keepN.data directories that exist, by number
    \* ---- the environment RunProgram gives its child ----
    rpEnv,          \* RunProgram's argument env
    environ,        \* super.environ
    envIn,          \* the local `env` after the two appends
    cmdEnv,         \* cmd.Env
    envpc,          \* position: "idle" | "call" | "merged" | "set" | "panic" | "ops"
    envOp,          \* the last call of setEnv, prependEnv or cleanEnv
    envCalls        \* history: number of such calls made

schedVars == <<tasks, tasksReady, closes, canceled, cancelCause, cancelClean, runpc, runIdx,
               runErr, healthChecker, waitShutdown, done, tpc, tIdx, waitRes,
               runRet, wpc, failLog, panicked>>

rpVars == <<rpCtxDone, rppc, rpErr, rpCtxAtResult, exited, process, child,
            childKind, childStatus, waitErr, held, pipesClosed, cpOut, cpErr,
            watcher, sigterms, warned, polled, rpProg, rpArgs, rpErrText>>

wrVars == <<wrpc, wrRes, wrPoll>>

setupVars == <<afFailure, autofilled, conffile, confWrites, configfile, spawned,
               osEnviron>>

afVars == <<clusterType, ownDB, ctrlAddr, clusters, cfgIn, cluster, cfgOut,
            afpc, afErr, afIdx, usedPort, portLog, retries, volTodo, dirs>>

envVars == <<rpEnv, environ, envIn, cmdEnv, envpc, envOp, envCalls>>

vars == <<schedVars, setupVars, wrVars, rpVars, afVars, envVars>>

\* what the steps of run and of the task goroutines leave alone, but for
\* run's setup steps
outsideSched == <<setupVars, wrVars, rpVars, afVars, envVars>>

\* what the steps of RunProgram leave alone
outsideRP == <<schedVars, setupVars, wrVars, afVars, envVars>>

\* what the steps of WaitReady leave alone
outsideWR == <<schedVars, setupVars, rpVars, afVars, envVars>>

\* what the steps of autofillConfig leave alone
outsideAF == <<schedVars, setupVars, wrVars, rpVars, envVars>>

\* what the environment merge of RunProgram leaves alone
outsideEnv == <<schedVars, setupVars, wrVars, rpVars, afVars>>

(***************************************************************************)
(* Task lists.  A task is its display name (String()) and the names of     *)
(* the tasks its Run waits on.                                             *)
(***************************************************************************)
Range(f) == {f[k] : k \in DOMAIN f}

Task(n, d) == [name |-> n, depends |-> d]

Names(l) == {l[i].name : i \in DOMAIN l}

DistinctNames(l) == \A i, j \in DOMAIN l : l[i].name = l[j].name => i = j

\* The shapes of run's task list: dependencies before and after their
\* dependents, independent tasks, dependency cycles (alone and beside a task
\* outside the cycle), a dependency that is
\* not itself listed, and lists that name one task twice.
CandidateLists ==
    { <<Task("A", <<>>), Task("B", <<"A">>), Task("C", <<"A", "B">>)>>,
      <<Task("C", <<"A", "B">>), Task("B", <<"A">>), Task("A", <<>>)>>,
      <<Task("A", <<>>), Task("B", <<>>)>>,
      <<Task("A", <<"B">>), Task("B", <<"A">>)>>,
      <<Task("A", <<"A">>)>>,
      <<Task("A", <<>>), Task("B", <<"C">>), Task("C", <<"B">>)>>,
      <<Task("A", <<>>), Task("B", <<"X">>)>>,
      <<Task("A", <<>>), Task("B", <<"A">>), Task("C", <<"A">>),
        Task("D", <<"B", "C">>)>>,
      <<Task("A", <<>>), Task("A", <<>>)>>,
      <<Task("B", <<"A">>), Task("A", <<>>), Task("A", <<>>)>> }

\* the lists whose display names are pairwise distinct, as in run's own list
TaskLists == {l \in CandidateLists : Len(l) <= MaxTasks /\ DistinctNames(l)}

\* every list, also those that name a task twice
AnyTaskLists == {l \in CandidateLists : Len(l) <= MaxTasks}

\* n reaches m through one or more dependency edges of l
RECURSIVE Reaches(_, _, _, _)
Reaches(l, n, m, fuel) ==
    IF fuel = 0 THEN FALSE
    ELSE \E i \in DOMAIN l :
            /\ l[i].name = n
            /\ \E k \in DOMAIN l[i].depends :
                  \/ l[i].depends[k] = m
                  \/ Reaches(l, l[i].depends[k], m, fuel - 1)

Acyclic(l) == \A i \in DOMAIN l : ~Reaches(l, l[i].name, l[i].name, Len(l))

(***************************************************************************)
(* Context and readiness channels.                                         *)
(***************************************************************************)
\* ctx.Err()
CtxErr == IF canceled THEN "canceled" ELSE "nil"

\* super.cancel(): the first call cancels, later calls change nothing
Cancel(by) ==
    /\ canceled' = TRUE
    /\ cancelCause' = IF canceled THEN cancelCause ELSE by
    /\ cancelClean' = IF canceled THEN cancelClean ELSE healthChecker

\* ch, ok := super.tasksReady[name]
HasChan(n) == n \in DOMAIN tasksReady

IsClosed(n) == HasChan(n) /\ tasksReady[n] = "closed"

\* mutant of WaitSelect: a canceled context counts as readiness
WaitSelectEither(n) ==
    IF IsClosed(n) \/ canceled THEN {"ready"} ELSE {}

\* mutant of WaitSelect: the select has no ctx.Done() case
WaitSelectNoCtx(n) ==
    IF IsClosed(n) THEN {"ready"} ELSE {}

\* the branches of wait's select that can fire; Go picks any ready branch
WaitSelect(n) ==
    (IF IsClosed(n) THEN {"ready"} ELSE {}) \cup
    (IF canceled THEN {"canceled"} ELSE {})

\* mutant of CloseReady: the goroutine ends without closing the channel
CloseReadyForgotten(n) ==
    UNCHANGED <<closes, tasksReady, panicked>>

\* close(super.tasksReady[name]): closing a closed channel panics
CloseReady(n) ==
    /\ closes' = [closes EXCEPT ![n] = @ + 1]
    /\ IF tasksReady[n] = "closed"
       THEN /\ panicked' = TRUE
            /\ UNCHANGED tasksReady
       ELSE /\ tasksReady' = [tasksReady EXCEPT ![n] = "closed"]
            /\ UNCHANGED panicked

(***************************************************************************)
(* Initial state: Start has created ctx and done, run has not begun.       *)
(***************************************************************************)
InitSched(lists, envs) ==
    /\ tasks \in lists
    /\ osEnviron \in envs
    /\ tasksReady = <<>>
    /\ closes = [n \in Names(tasks) |-> 0]
    /\ canceled = FALSE
    /\ cancelCause = "none"
    /\ cancelClean = FALSE
    /\ runpc = "setup"
    /\ runIdx = 1
    /\ runErr = "none"
    /\ healthChecker = FALSE
    /\ waitShutdown = 0
    /\ done = FALSE
    /\ tpc = [i \in DOMAIN tasks |-> "unstarted"]
    /\ tIdx = [i \in DOMAIN tasks |-> 1]
    /\ waitRes = [i \in DOMAIN tasks |-> "none"]
    /\ runRet = [i \in DOMAIN tasks |-> "none"]
    /\ wpc = [i \in DOMAIN tasks |-> "none"]
    /\ failLog = <<>>
    /\ panicked = FALSE
    /\ afFailure = "none"
    /\ autofilled = FALSE
    /\ conffile = "absent"
    /\ confWrites = 0
    /\ configfile = <<>>
    /\ spawned = FALSE

(***************************************************************************)
(* The supervisor's environment list, super.environ.  An entry is the      *)
(* sequence of its characters; where run's own entries are concerned a     *)
(* fixed piece of text such as ARVADOS_ or PATH stands as one element.     *)
(***************************************************************************)
\* strings.HasPrefix(s, p)
HasPrefix(s, p) == Len(p) <= Len(s) /\ SubSeq(s, 1, Len(p)) = p

\* the index of the first entry of env that starts with key+"=", or 0
FirstWithKey(env, key) ==
    LET hits == {i \in 1..Len(env) : HasPrefix(env[i], key \o <<"=">>)}
    IN  IF hits = {} THEN 0 ELSE CHOOSE i \in hits : \A j \in hits : i <= j

\* a call of one of the three operations, with its arguments
EnvOp(op, key, val, prefixes) ==
    [op |-> op, key |-> key, val |-> val, prefixes |-> prefixes]

\* no call yet
NoEnvOp == EnvOp("none", <<>>, <<>>, <<>>)

\* mutant of SetEnv: the entry is always appended
SetEnvAppend(env, key, val) == Append(env, key \o <<"=">> \o val)

\* super.setEnv(key, val): the first entry that starts with key+"=" is
\* replaced where it stands; without one, key=val is appended
SetEnv(env, key, val) ==
    LET i == FirstWithKey(env, key)
    IN  IF i # 0 THEN [env EXCEPT ![i] = key \o <<"=">> \o val]
        ELSE Append(env, key \o <<"=">> \o val)

\* mutant of PrependEnv: the old value is dropped
PrependEnvOnly(env, key, prepend) ==
    LET i == FirstWithKey(env, key)
    IN  IF i # 0 THEN [env EXCEPT ![i] = key \o <<"=">> \o prepend]
        ELSE Append(env, key \o <<"=">> \o prepend)

\* super.prependEnv(key, prepend): the first entry that starts with key+"="
\* becomes key=prepend+old value, s[len(key)+1:] being the old value;
\* without one, key=prepend is appended
PrependEnv(env, key, prepend) ==
    LET i == FirstWithKey(env, key)
    IN  IF i # 0
        THEN [env EXCEPT ![i] = key \o <<"=">> \o prepend
                                   \o SubSeq(env[i], Len(key) + 2, Len(env[i]))]
        ELSE Append(env, key \o <<"=">> \o prepend)

\* mutant of CleanEnv: only the first prefix of the list is looked at
CleanEnvFirstPrefix(env, prefixes) ==
    SelectSeq(env, LAMBDA s : ~(prefixes # <<>> /\ HasPrefix(s, prefixes[1])))

\* super.cleanEnv(prefixes): the entries that start with none of the
\* prefixes, in their order
CleanEnv(env, prefixes) ==
    SelectSeq(env, LAMBDA s : ~\E k \in 1..Len(prefixes) : HasPrefix(s, prefixes[k]))

\* the text every entry meant for Arvados programs begins with
ArvadosPrefix == <<"ARVADOS_">>

\* filepath.Join(super.tempdir, "config.yml")
ConfigPath == <<"tempdir", "/config.yml">>

\* the environment the supervisor's process was started with: Arvados
\* entries (one key twice), an entry whose key holds ARVADOS_ further in, a
\* PATH and gem entries
HostEnviron ==
    << ArvadosPrefix \o <<"CONFIG", "=", "/etc/config.yml">>,
       <<"PATH", "=", "/bin">>,
       ArvadosPrefix \o <<"API_HOST", "=", "host">>,
       <<"MY_", "ARVADOS_", "X", "=", "1">>,
       ArvadosPrefix \o <<"CONFIG", "=", "other.yml">>,
       <<"GEM_HOME", "=", "/gems">> >>

\* a short environment: one Arvados entry
BareEnviron == << ArvadosPrefix \o <<"CONFIG", "=", "/etc/config.yml">> >>

\* these and other environments: empty, under rvm, with the entries run sets
\* itself
HostEnvirons ==
    { <<>>,
      BareEnviron,
      HostEnviron,
      << <<"rvm_path", "=", "/rvm">>, <<"GEM_HOME", "=", "/gems">>,
         ArvadosPrefix \o <<"DEBUG", "=", "1">> >>,
      << <<"TMPDIR", "=", "/tmp">>, <<"RAILS_ENV", "=", "production">>,
         ArvadosPrefix \o <<"CONFIG", "=">>, <<"HOME", "=", "/root">> >> }

\* os.Getenv(key) on the environment env: the value of the first entry of
\* that key, "" without one
Getenv(env, key) ==
    LET i == FirstWithKey(env, key)
    IN  IF i = 0 THEN <<>> ELSE SubSeq(env[i], Len(key) + 2, Len(env[i]))

\* super.usingRVM()
UsingRVM(host) == Getenv(host, <<"rvm_path">>) # <<>>


(***************************************************************************)
(* Supervisor.run                                                          *)
(***************************************************************************)
\* Getwd, EvalSymlinks, TempDir, Mkdir(tempdir/bin): each may fail
RunSetup ==
    /\ ~panicked /\ runpc = "setup"
    /\ \/ /\ runpc' = "autofill"
          /\ UNCHANGED runErr
       \/ /\ runpc' = "returned"
          /\ runErr' = "setup"
    /\ UNCHANGED <<tasks, tasksReady, closes, canceled, cancelCause, cancelClean, runIdx,
                   healthChecker, waitShutdown, done, tpc, tIdx, waitRes,
                   runRet, wpc, failLog, panicked>>
    /\ UNCHANGED outsideSched

\* the steps of autofillConfig that can fail: cfg.GetCluster, SplitHostPort
\* of ControllerAddr, availablePort inside nextPort, rand.Read inside
\* randomHexString, ReadFile of the dispatch key, Stat and Mkdir of a
\* keepstore data directory
AutofillFailures ==
    {"nocluster", "badaddr", "bind", "rand", "readkey", "stat", "mkdir"}

\* how autofillConfig ends when step f fails: `return err`, but panic(err)
\* inside nextPort and inside randomHexString
AutofillOutcome(f) == IF f \in {"bind", "rand"} THEN "panic" ELSE "return"

\* err = super.autofillConfig(cfg); if err != nil { return err }.  A panic
\* in autofillConfig unwinds run's goroutine and the process dies.
RunAutofill ==
    /\ ~panicked /\ runpc = "autofill"
    /\ \E f \in AutofillFailures \cup {"none"} :
          /\ afFailure' = f
          /\ autofilled' = (f = "none")
          /\ IF f = "none"
             THEN /\ runpc' = "config"
                  /\ UNCHANGED runErr
             ELSE IF AutofillOutcome(f) = "panic"
             THEN /\ runpc' = "panic"
                  /\ UNCHANGED runErr
             ELSE /\ runpc' = "returned"
                  /\ runErr' = f
    /\ UNCHANGED <<tasks, tasksReady, closes, canceled, cancelCause, cancelClean, runIdx,
                   healthChecker, waitShutdown, done, tpc, tIdx, waitRes,
                   runRet, wpc, failLog, panicked>>
    /\ UNCHANGED <<conffile, confWrites, configfile, spawned, osEnviron>>
    /\ UNCHANGED <<wrVars, rpVars, afVars, envVars>>

\* mutant of RunWriteConfig: the file is created and left empty
RunWriteConfigEmpty ==
    /\ ~panicked /\ runpc = "config"
    /\ \/ /\ runpc' = "environ"
          /\ conffile' = "created"
          /\ configfile' = ConfigPath
          /\ UNCHANGED <<runErr, confWrites>>
       \/ /\ runpc' = "returned"
          /\ runErr' = "setup"
          /\ UNCHANGED <<conffile, confWrites, configfile>>
    /\ UNCHANGED <<tasks, tasksReady, closes, canceled, cancelCause, cancelClean, runIdx,
                   healthChecker, waitShutdown, done, tpc, tIdx, waitRes,
                   runRet, wpc, failLog, panicked>>
    /\ UNCHANGED <<afFailure, autofilled, spawned, osEnviron>>
    /\ UNCHANGED <<wrVars, rpVars, afVars, envVars>>

\* the finished configuration is written to tempdir/config.yml and the
\* file's name kept in super.configfile; OpenFile (which creates the file),
\* Encode and Close may each fail, and run then returns the error
RunWriteConfig ==
    /\ ~panicked /\ runpc = "config"
    /\ \/ /\ runpc' = "environ"
          /\ conffile' = "written"
          /\ confWrites' = confWrites + 1
          /\ configfile' = ConfigPath
          /\ UNCHANGED runErr
       \/ /\ runpc' = "returned"
          /\ runErr' = "setup"
          /\ \/ UNCHANGED <<conffile, confWrites>>
             \/ /\ conffile' = "created"
                /\ confWrites' = confWrites + 1
             \/ /\ conffile' = "written"
                /\ confWrites' = confWrites + 1
          /\ UNCHANGED configfile
    /\ UNCHANGED <<tasks, tasksReady, closes, canceled, cancelCause, cancelClean, runIdx,
                   healthChecker, waitShutdown, done, tpc, tIdx, waitRes,
                   runRet, wpc, failLog, panicked>>
    /\ UNCHANGED <<afFailure, autofilled, spawned, osEnviron>>
    /\ UNCHANGED <<wrVars, rpVars, afVars, envVars>>

\* mutant of RunEnviron: the inherited entries are all kept
RunEnvironInherit ==
    /\ ~panicked /\ runpc = "environ"
    /\ runpc' = "prepare"
    /\ \E e2 \in {SetEnv(osEnviron, ArvadosPrefix \o <<"CONFIG">>, configfile)} :
       \E e3 \in {SetEnv(e2, <<"RAILS_ENV">>, <<clusterType>>)} :
       \E e4 \in {SetEnv(e3, <<"TMPDIR">>, <<"tempdir">>)} :
          environ' = PrependEnv(e4, <<"PATH">>, <<"tempdir", "/bin", ":">>)
    /\ UNCHANGED <<tasks, tasksReady, closes, canceled, cancelCause, cancelClean, runIdx,
                   runErr, healthChecker, waitShutdown, done, tpc, tIdx, waitRes,
                   runRet, wpc, failLog, panicked>>
    /\ UNCHANGED <<rpEnv, envIn, cmdEnv, envpc, envOp, envCalls>>
    /\ UNCHANGED <<setupVars, wrVars, rpVars, afVars>>

\* super.environ = os.Environ(), then cleanEnv of ARVADOS_, setEnv of
\* ARVADOS_CONFIG, RAILS_ENV and TMPDIR, prependEnv of PATH, one call after
\* the other (e1 .. e4 are the list after each call); none can fail
RunEnviron ==
    /\ ~panicked /\ runpc = "environ"
    /\ runpc' = "prepare"
    /\ \E e1 \in {CleanEnv(osEnviron, <<ArvadosPrefix>>)} :
       \E e2 \in {SetEnv(e1, ArvadosPrefix \o <<"CONFIG">>, configfile)} :
       \E e3 \in {SetEnv(e2, <<"RAILS_ENV">>, <<clusterType>>)} :
       \E e4 \in {SetEnv(e3, <<"TMPDIR">>, <<"tempdir">>)} :
          environ' = PrependEnv(e4, <<"PATH">>, <<"tempdir", "/bin", ":">>)
    /\ UNCHANGED <<tasks, tasksReady, closes, canceled, cancelCause, cancelClean, runIdx,
                   runErr, healthChecker, waitShutdown, done, tpc, tIdx, waitRes,
                   runRet, wpc, failLog, panicked>>
    /\ UNCHANGED <<rpEnv, envIn, cmdEnv, envpc, envOp, envCalls>>
    /\ UNCHANGED <<setupVars, wrVars, rpVars, afVars>>

\* GetCluster, the logger, the two `git` RunProgram calls, installGoProgram,
\* setupRubyEnv: each may fail.  Only GetCluster and the logger come before
\* the first program; RunProgram starts its child also when the context is
\* canceled and then returns ctx.Err(), so with a canceled context run
\* returns here.  setupRubyEnv changes super.environ as it goes (nothing
\* but HOME under rvm): g1 is the list after its cleanEnv, when `gem` is
\* run, g4 the list after prependEnv of PATH and setEnv of GEM_HOME and
\* GEM_PATH, when user.Current is called; a failure leaves the list there.
RunPrepare ==
    /\ ~panicked /\ runpc = "prepare"
    /\ \E g1 \in {IF UsingRVM(osEnviron) THEN environ
                  ELSE CleanEnv(environ, << <<"GEM_HOME", "=">>,
                                            <<"GEM_PATH", "=">> >>)} :
       \E g2 \in {IF UsingRVM(osEnviron) THEN g1
                  ELSE PrependEnv(g1, <<"PATH">>, <<"gempath", "/bin", ":">>)} :
       \E g3 \in {IF UsingRVM(osEnviron) THEN g2
                  ELSE SetEnv(g2, <<"GEM_HOME">>, <<"gempath">>)} :
       \E g4 \in {IF UsingRVM(osEnviron) THEN g3
                  ELSE SetEnv(g3, <<"GEM_PATH">>, <<"gempath">>)} :
          \/ /\ ~canceled
             /\ runpc' = "alloc"
             /\ spawned' = TRUE
             /\ environ' = SetEnv(g4, <<"HOME">>, <<"homedir">>)
             /\ UNCHANGED runErr
          \/ /\ runpc' = "returned"
             /\ runErr' = "setup"
             /\ \/ UNCHANGED <<spawned, environ>>
                \/ /\ spawned' = TRUE
                   /\ environ' \in {environ, g1, g4}
          \/ /\ canceled
             /\ runpc' = "returned"
             /\ runErr' = CtxErr
             /\ spawned' = TRUE
             /\ UNCHANGED environ
    /\ UNCHANGED <<tasks, tasksReady, closes, canceled, cancelCause, cancelClean, runIdx,
                   healthChecker, waitShutdown, done, tpc, tIdx, waitRes,
                   runRet, wpc, failLog, panicked>>
    /\ UNCHANGED <<afFailure, autofilled, conffile, confWrites, configfile, osEnviron>>
    /\ UNCHANGED <<rpEnv, envIn, cmdEnv, envpc, envOp, envCalls>>
    /\ UNCHANGED <<wrVars, rpVars, afVars>>

\* mutant of RunAlloc: lists with a dependency cycle are refused
RunAllocAcyclicOnly ==
    /\ ~panicked /\ runpc = "alloc"
    /\ IF Acyclic(tasks)
       THEN /\ tasksReady' = [n \in Names(tasks) |-> "open"]
            /\ runpc' = "spawn"
            /\ runIdx' = 1
            /\ UNCHANGED runErr
       ELSE /\ runpc' = "returned"
            /\ runErr' = "cycle"
            /\ UNCHANGED <<tasksReady, runIdx>>
    /\ UNCHANGED <<tasks, closes, canceled, cancelCause, cancelClean, healthChecker,
                   waitShutdown, done, tpc, tIdx, waitRes, runRet, wpc,
                   failLog, panicked>>
    /\ UNCHANGED outsideSched

\* mutant of RunAlloc: a channel is also made for every name that appears
\* only in a dependency list
RunAllocWithDepends ==
    /\ ~panicked /\ runpc = "alloc"
    /\ tasksReady' = [n \in Names(tasks) \cup
                            UNION {{tasks[i].depends[k] : k \in DOMAIN tasks[i].depends}
                                      : i \in DOMAIN tasks} |-> "open"]
    /\ runpc' = "spawn"
    /\ runIdx' = 1
    /\ UNCHANGED <<tasks, closes, canceled, cancelCause, cancelClean, runErr, healthChecker,
                   waitShutdown, done, tpc, tIdx, waitRes, runRet, wpc,
                   failLog, panicked>>
    /\ UNCHANGED outsideSched

\* super.tasksReady = map...; one channel per display name
RunAlloc ==
    /\ ~panicked /\ runpc = "alloc"
    /\ tasksReady' = [n \in Names(tasks) |-> "open"]
    /\ runpc' = "spawn"
    /\ runIdx' = 1
    /\ UNCHANGED <<tasks, closes, canceled, cancelCause, cancelClean, runErr, healthChecker,
                   waitShutdown, done, tpc, tIdx, waitRes, runRet, wpc,
                   failLog, panicked>>
    /\ UNCHANGED outsideSched

\* one iteration of `for _, task := range tasks { go func() {...}() }`
RunSpawn ==
    /\ ~panicked /\ runpc = "spawn"
    /\ IF runIdx <= Len(tasks)
       THEN /\ tpc' = [tpc EXCEPT ![runIdx] = "wait"]
            /\ runIdx' = runIdx + 1
            /\ UNCHANGED runpc
       ELSE /\ runpc' = "wait"
            /\ runIdx' = 1
            /\ UNCHANGED tpc
    /\ UNCHANGED <<tasks, tasksReady, closes, canceled, cancelCause, cancelClean, runErr,
                   healthChecker, waitShutdown, done, tIdx, waitRes, runRet,
                   wpc, failLog, panicked>>
    /\ UNCHANGED outsideSched

\* one iteration of super.wait(super.ctx, tasks...) as called by run, and
\* `if err != nil { return err }`
RunWait ==
    /\ ~panicked /\ runpc = "wait"
    /\ IF runIdx > Len(tasks)
       THEN /\ runpc' = "health"
            /\ UNCHANGED <<runIdx, runErr>>
       ELSE IF ~HasChan(tasks[runIdx].name)
       THEN /\ runpc' = "returned"
            /\ runErr' = "nosuchtask"
            /\ UNCHANGED runIdx
       ELSE \E br \in WaitSelect(tasks[runIdx].name) :
              IF br = "ready"
              THEN /\ runIdx' = runIdx + 1
                   /\ UNCHANGED <<runpc, runErr>>
              ELSE /\ runpc' = "returned"
                   /\ runErr' = CtxErr
                   /\ UNCHANGED runIdx
    /\ UNCHANGED <<tasks, tasksReady, closes, canceled, cancelCause, cancelClean,
                   healthChecker, waitShutdown, done, tpc, tIdx, waitRes,
                   runRet, wpc, failLog, panicked>>
    /\ UNCHANGED outsideSched

\* super.healthChecker = &health.Aggregator{...}
RunHealth ==
    /\ ~panicked /\ runpc = "health"
    /\ healthChecker' = TRUE
    /\ runpc' = "blocked"
    /\ UNCHANGED <<tasks, tasksReady, closes, canceled, cancelCause, cancelClean, runIdx,
                   runErr, waitShutdown, done, tpc, tIdx, waitRes, runRet, wpc,
                   failLog, panicked>>
    /\ UNCHANGED outsideSched

\* <-super.ctx.Done()
RunDone ==
    /\ ~panicked /\ runpc = "blocked"
    /\ canceled
    /\ runpc' = "shutdown"
    /\ UNCHANGED <<tasks, tasksReady, closes, canceled, cancelCause, cancelClean, runIdx,
                   runErr, healthChecker, waitShutdown, done, tpc, tIdx,
                   waitRes, runRet, wpc, failLog, panicked>>
    /\ UNCHANGED outsideSched

\* mutant of RunResult: run reports success after a clean shutdown
RunResultNil == "nil"

\* what run returns at its last line: return super.ctx.Err()
RunResult == CtxErr

\* super.waitShutdown.Wait(); return super.ctx.Err()
RunShutdown ==
    /\ ~panicked /\ runpc = "shutdown"
    /\ waitShutdown = 0
    /\ runpc' = "returned"
    /\ runErr' = RunResult
    /\ UNCHANGED <<tasks, tasksReady, closes, canceled, cancelCause, cancelClean, runIdx,
                   healthChecker, waitShutdown, done, tpc, tIdx, waitRes,
                   runRet, wpc, failLog, panicked>>
    /\ UNCHANGED outsideSched

\* Start's goroutine after run returned: close(super.done)
StartFinish ==
    /\ ~panicked /\ runpc = "returned" /\ ~done
    /\ done' = TRUE
    /\ UNCHANGED <<tasks, tasksReady, closes, canceled, cancelCause, cancelClean, runpc,
                   runIdx, runErr, healthChecker, waitShutdown, tpc, tIdx,
                   waitRes, runRet, wpc, failLog, panicked>>
    /\ UNCHANGED outsideSched

\* Stop(), or SIGINT/SIGTERM caught by Start's signal goroutine
ExternalCancel ==
    /\ ~panicked /\ runpc # "panic" /\ ~canceled
    /\ Cancel("external")
    /\ UNCHANGED <<tasks, tasksReady, closes, runpc, runIdx, runErr,
                   healthChecker, waitShutdown, done, tpc, tIdx, waitRes,
                   runRet, wpc, failLog, panicked>>
    /\ UNCHANGED outsideSched

(***************************************************************************)
(* The goroutine run starts for task i.                                    *)
(***************************************************************************)
\* mutant of TaskWait: Run hands wait a context that is never canceled
\* (context.Background()) instead of the shared one
TaskWaitBackground(i) ==
    /\ ~panicked /\ i \in DOMAIN tasks /\ tpc[i] = "wait"
    /\ IF tIdx[i] > Len(tasks[i].depends)
       THEN /\ waitRes' = [waitRes EXCEPT ![i] = "nil"]
            /\ tpc' = [tpc EXCEPT ![i] = "work"]
            /\ UNCHANGED <<tIdx, runRet>>
       ELSE IF ~HasChan(tasks[i].depends[tIdx[i]])
       THEN /\ waitRes' = [waitRes EXCEPT ![i] = "nosuchtask"]
            /\ runRet' = [runRet EXCEPT ![i] = "err"]
            /\ tpc' = [tpc EXCEPT ![i] = "failcheck"]
            /\ UNCHANGED tIdx
       ELSE /\ IsClosed(tasks[i].depends[tIdx[i]])
            /\ tIdx' = [tIdx EXCEPT ![i] = @ + 1]
            /\ UNCHANGED <<waitRes, runRet, tpc>>
    /\ UNCHANGED <<tasks, tasksReady, closes, canceled, cancelCause, cancelClean, runpc,
                   runIdx, runErr, healthChecker, waitShutdown, done, wpc,
                   failLog, panicked>>
    /\ UNCHANGED outsideSched

\* task.Run(super.ctx, fail, super) begins by waiting for the tasks it
\* depends on: one iteration of super.wait(ctx, depends...) inside Run; an
\* error of wait is what Run returns
TaskWait(i) ==
    /\ ~panicked /\ i \in DOMAIN tasks /\ tpc[i] = "wait"
    /\ IF tIdx[i] > Len(tasks[i].depends)
       THEN /\ waitRes' = [waitRes EXCEPT ![i] = "nil"]
            /\ tpc' = [tpc EXCEPT ![i] = "work"]
            /\ UNCHANGED <<tIdx, runRet>>
       ELSE IF ~HasChan(tasks[i].depends[tIdx[i]])
       THEN /\ waitRes' = [waitRes EXCEPT ![i] = "nosuchtask"]
            /\ runRet' = [runRet EXCEPT ![i] = "err"]
            /\ tpc' = [tpc EXCEPT ![i] = "failcheck"]
            /\ UNCHANGED tIdx
       ELSE \E br \in WaitSelect(tasks[i].depends[tIdx[i]]) :
              IF br = "ready"
              THEN /\ tIdx' = [tIdx EXCEPT ![i] = @ + 1]
                   /\ UNCHANGED <<waitRes, runRet, tpc>>
              ELSE /\ waitRes' = [waitRes EXCEPT ![i] = CtxErr]
                   /\ runRet' = [runRet EXCEPT ![i] = "err"]
                   /\ tpc' = [tpc EXCEPT ![i] = "failcheck"]
                   /\ UNCHANGED tIdx
    /\ UNCHANGED <<tasks, tasksReady, closes, canceled, cancelCause, cancelClean, runpc,
                   runIdx, runErr, healthChecker, waitShutdown, done, wpc,
                   failLog, panicked>>
    /\ UNCHANGED outsideSched

\* the task's own work: Run returns nil, possibly leaving a background
\* worker registered in waitShutdown, or returns an error
TaskWork(i) ==
    /\ ~panicked /\ i \in DOMAIN tasks /\ tpc[i] = "work"
    /\ \/ /\ runRet' = [runRet EXCEPT ![i] = "nil"]
          /\ tpc' = [tpc EXCEPT ![i] = "close"]
          /\ \/ UNCHANGED <<wpc, waitShutdown>>
             \/ /\ Cardinality({j \in DOMAIN tasks : wpc[j] # "none"}) < MaxWorkers
                /\ wpc' = [wpc EXCEPT ![i] = "running"]
                /\ waitShutdown' = waitShutdown + 1
       \/ /\ runRet' = [runRet EXCEPT ![i] = "err"]
          /\ tpc' = [tpc EXCEPT ![i] = "failcheck"]
          /\ UNCHANGED <<wpc, waitShutdown>>
    /\ UNCHANGED <<tasks, tasksReady, closes, canceled, cancelCause, cancelClean, runpc,
                   runIdx, runErr, healthChecker, done, tIdx, waitRes, failLog,
                   panicked>>
    /\ UNCHANGED outsideSched

\* mutant of TaskClose: without `task := task` every goroutine sees the
\* loop's last task
TaskCloseCaptured(i) ==
    /\ ~panicked /\ i \in DOMAIN tasks /\ tpc[i] = "close"
    /\ CloseReady(tasks[Len(tasks)].name)
    /\ tpc' = [tpc EXCEPT ![i] = "done"]
    /\ UNCHANGED <<tasks, canceled, cancelCause, cancelClean, runpc, runIdx,
                   runErr, healthChecker, waitShutdown, done, tIdx, waitRes,
                   runRet, wpc, failLog>>
    /\ UNCHANGED outsideSched

\* close(super.tasksReady[task.String()])
TaskClose(i) ==
    /\ ~panicked /\ i \in DOMAIN tasks /\ tpc[i] = "close"
    /\ CloseReady(tasks[i].name)
    /\ tpc' = [tpc EXCEPT ![i] = "done"]
    /\ UNCHANGED <<tasks, canceled, cancelCause, cancelClean, runpc, runIdx, runErr,
                   healthChecker, waitShutdown, done, tIdx, waitRes, runRet,
                   wpc, failLog>>
    /\ UNCHANGED outsideSched

\* fail(err): if super.ctx.Err() != nil { return }
FailCheck(i) ==
    /\ ~panicked /\ i \in DOMAIN tasks /\ tpc[i] = "failcheck"
    /\ tpc' = [tpc EXCEPT ![i] = IF CtxErr # "nil" THEN "done" ELSE "failcancel"]
    /\ UNCHANGED <<tasks, tasksReady, closes, canceled, cancelCause, cancelClean, runpc,
                   runIdx, runErr, healthChecker, waitShutdown, done, tIdx,
                   waitRes, runRet, wpc, failLog, panicked>>
    /\ UNCHANGED outsideSched

\* mutant of FailCancel: the `return` after fail(err) is missing, so the
\* goroutine goes on to close the channel
FailCancelFallThrough(i) ==
    /\ ~panicked /\ i \in DOMAIN tasks /\ tpc[i] = "failcancel"
    /\ Cancel("task")
    /\ failLog' = Append(failLog, tasks[i].name)
    /\ CloseReady(tasks[i].name)
    /\ tpc' = [tpc EXCEPT ![i] = "done"]
    /\ UNCHANGED <<tasks, runpc, runIdx, runErr, healthChecker, waitShutdown,
                   done, tIdx, waitRes, runRet, wpc>>
    /\ UNCHANGED outsideSched

\* mutant of FailCancel: fail logs the error but does not cancel
FailLogOnly(i) ==
    /\ ~panicked /\ i \in DOMAIN tasks /\ tpc[i] = "failcancel"
    /\ failLog' = Append(failLog, tasks[i].name)
    /\ tpc' = [tpc EXCEPT ![i] = "done"]
    /\ UNCHANGED <<tasks, tasksReady, closes, canceled, cancelCause,
                   cancelClean, runpc, runIdx, runErr, healthChecker,
                   waitShutdown, done, tIdx, waitRes, runRet, wpc, panicked>>
    /\ UNCHANGED outsideSched

\* mutant of FailCancel: fail cancels the context but logs nothing
FailCancelSilent(i) ==
    /\ ~panicked /\ i \in DOMAIN tasks /\ tpc[i] = "failcancel"
    /\ Cancel("task")
    /\ tpc' = [tpc EXCEPT ![i] = "done"]
    /\ UNCHANGED <<tasks, tasksReady, closes, runpc, runIdx, runErr,
                   healthChecker, waitShutdown, done, tIdx, waitRes, runRet,
                   wpc, failLog, panicked>>
    /\ UNCHANGED outsideSched

\* fail(err): super.cancel(); logger...Error("task failed")
FailCancel(i) ==
    /\ ~panicked /\ i \in DOMAIN tasks /\ tpc[i] = "failcancel"
    /\ Cancel("task")
    /\ failLog' = Append(failLog, tasks[i].name)
    /\ tpc' = [tpc EXCEPT ![i] = "done"]
    /\ UNCHANGED <<tasks, tasksReady, closes, runpc, runIdx, runErr,
                   healthChecker, waitShutdown, done, tIdx, waitRes, runRet,
                   wpc, panicked>>
    /\ UNCHANGED outsideSched

(***************************************************************************)
(* The background worker a task may leave behind: it runs the task's       *)
(* long-lived child, reports its end through fail and then calls           *)
(* waitShutdown.Done().                                                    *)
(***************************************************************************)
\* the worker's child ends: by itself, or because ctx was canceled
WorkerExit(i) ==
    /\ ~panicked /\ i \in DOMAIN tasks /\ wpc[i] = "running"
    /\ wpc' = [wpc EXCEPT ![i] = "failcheck"]
    /\ UNCHANGED <<tasks, tasksReady, closes, canceled, cancelCause, cancelClean, runpc,
                   runIdx, runErr, healthChecker, waitShutdown, done, tpc,
                   tIdx, waitRes, runRet, failLog, panicked>>
    /\ UNCHANGED outsideSched

\* fail(err) called by the worker: the ctx.Err() check; when it returns at
\* once, the deferred waitShutdown.Done() runs
WorkerFailCheck(i) ==
    /\ ~panicked /\ i \in DOMAIN tasks /\ wpc[i] = "failcheck"
    /\ IF CtxErr # "nil"
       THEN /\ wpc' = [wpc EXCEPT ![i] = "done"]
            /\ waitShutdown' = waitShutdown - 1
       ELSE /\ wpc' = [wpc EXCEPT ![i] = "failcancel"]
            /\ UNCHANGED waitShutdown
    /\ UNCHANGED <<tasks, tasksReady, closes, canceled, cancelCause,
                   cancelClean, runpc, runIdx, runErr, healthChecker, done,
                   tpc, tIdx, waitRes, runRet, failLog, panicked>>
    /\ UNCHANGED outsideSched

\* fail(err) called by the worker: cancel and log, then the deferred
\* waitShutdown.Done()
WorkerFailCancel(i) ==
    /\ ~panicked /\ i \in DOMAIN tasks /\ wpc[i] = "failcancel"
    /\ Cancel("task")
    /\ failLog' = Append(failLog, tasks[i].name)
    /\ wpc' = [wpc EXCEPT ![i] = "done"]
    /\ waitShutdown' = waitShutdown - 1
    /\ UNCHANGED <<tasks, tasksReady, closes, runpc, runIdx, runErr,
                   healthChecker, done, tpc, tIdx, waitRes, runRet, panicked>>
    /\ UNCHANGED outsideSched

\* an unsynchronized read of a flag another goroutine sets: the new value,
\* or still the old one
RacyRead(v) == IF v THEN {TRUE, FALSE} ELSE {FALSE}

(***************************************************************************)
(* Supervisor.WaitReady, called by one client after Start.                 *)
(***************************************************************************)
\* WaitReady has not been called
WRIdle ==
    /\ wrpc = "idle"
    /\ wrRes = "none"
    /\ wrPoll = "none"

\* the call: ticker := time.NewTicker(time.Second); waiting := "all"
WRCall ==
    /\ ~panicked /\ runpc # "panic" /\ wrpc = "idle"
    /\ wrpc' = "select"
    /\ UNCHANGED <<wrRes, wrPoll>>
    /\ UNCHANGED outsideWR

\* select: case <-ticker.C
WRTick ==
    /\ ~panicked /\ runpc # "panic" /\ wrpc = "select"
    /\ wrpc' = "check"
    /\ UNCHANGED <<wrRes, wrPoll>>
    /\ UNCHANGED outsideWR

\* select: case <-super.ctx.Done(): return nil, false
WRCanceled ==
    /\ ~panicked /\ runpc # "panic" /\ wrpc = "select"
    /\ canceled
    /\ wrpc' = "returned"
    /\ wrRes' = "false"
    /\ UNCHANGED wrPoll
    /\ UNCHANGED outsideWR

\* mutant of WRCheck: the poll is trusted without looking at healthChecker
WRCheckAnyTime ==
    /\ ~panicked /\ runpc # "panic" /\ wrpc = "check"
    /\ \E ok \in BOOLEAN :
          /\ wrPoll' = IF ok THEN "ok" ELSE "waiting"
          /\ IF ok
             THEN wrpc' = "returned" /\ wrRes' = "true"
             ELSE wrpc' = "select" /\ UNCHANGED wrRes
    /\ UNCHANGED outsideWR

\* after a tick: if super.healthChecker == nil { continue }; otherwise one
\* ClusterHealth() poll, whose checks are all "OK" or not; the loop ends
\* when none is left to wait for.  healthChecker is set by run's goroutine
\* and read here without synchronization.
WRCheck ==
    /\ ~panicked /\ runpc # "panic" /\ wrpc = "check"
    /\ \E h \in RacyRead(healthChecker) :
          IF ~h
          THEN /\ wrpc' = "select"
               /\ UNCHANGED <<wrRes, wrPoll>>
          ELSE \E ok \in BOOLEAN :
                  /\ wrPoll' = IF ok THEN "ok" ELSE "waiting"
                  /\ IF ok
                     THEN wrpc' = "returned" /\ wrRes' = "true"
                     ELSE wrpc' = "select" /\ UNCHANGED wrRes
    /\ UNCHANGED outsideWR

WRStep ==
    \/ WRCall
    \/ WRTick
    \/ WRCanceled
    \/ WRCheck

(***************************************************************************)
(* Specifications of the scheduler.                                        *)
(***************************************************************************)
RunStep ==
    \/ RunSetup
    \/ RunAutofill
    \/ RunWriteConfig
    \/ RunEnviron
    \/ RunPrepare
    \/ RunAlloc
    \/ RunSpawn
    \/ RunWait
    \/ RunHealth
    \/ RunDone
    \/ RunShutdown
    \/ StartFinish

TaskStep(i) ==
    \/ TaskWait(i)
    \/ TaskWork(i)
    \/ TaskClose(i)
    \/ FailCheck(i)
    \/ FailCancel(i)

WorkerStep(i) ==
    \/ WorkerExit(i)
    \/ WorkerFailCheck(i)
    \/ WorkerFailCancel(i)

Next ==
    \/ RunStep
    \/ ExternalCancel
    \/ \E i \in 1..MaxTasks : TaskStep(i)
    \/ \E i \in 1..MaxTasks : WorkerStep(i)

\* the environment merge is not being looked at
EnvIdle ==
    /\ rpEnv = <<>>
    /\ environ = <<>>
    /\ envIn = <<>>
    /\ cmdEnv = <<>>
    /\ envpc = "idle"
    /\ envOp = NoEnvOp
    /\ envCalls = 0

\* autofillConfig is not being looked at
AFIdle ==
    /\ clusterType = "test"
    /\ ownDB = FALSE
    /\ ctrlAddr = <<>>
    /\ clusters = 1
    /\ cfgIn = <<>>
    /\ cluster = <<>>
    /\ cfgOut = <<>>
    /\ afpc = "idle"
    /\ afErr = "none"
    /\ afIdx = 1
    /\ usedPort = {}
    /\ portLog = <<>>
    /\ retries = 0
    /\ volTodo = {}
    /\ dirs = {}

\* RunProgram has not been called
RPIdle ==
    /\ rpCtxDone = FALSE
    /\ rppc = "idle"
    /\ rpErr = "none"
    /\ rpCtxAtResult = FALSE
    /\ exited = FALSE
    /\ process = FALSE
    /\ child = "none"
    /\ childKind = "finite"
    /\ childStatus = "none"
    /\ waitErr = "none"
    /\ held = FALSE
    /\ pipesClosed = FALSE
    /\ cpOut = "none"
    /\ cpErr = "none"
    /\ watcher = "none"
    /\ sigterms = 0
    /\ warned = FALSE
    /\ polled = FALSE
    /\ rpProg = "git"
    /\ rpArgs = <<>>
    /\ rpErrText = <<>>

Init == InitSched(TaskLists, {BareEnviron}) /\ WRIdle /\ RPIdle /\ AFIdle /\ EnvIdle

Spec == Init /\ [][Next]_vars

\* the same scheduler, handed any task list, also one that names a task twice
InitDup == InitSched(AnyTaskLists, {BareEnviron}) /\ WRIdle /\ RPIdle /\ AFIdle /\ EnvIdle

SpecDup == InitDup /\ [][Next]_vars

\* the lists of at most two tasks
SetupLists == {l \in TaskLists : Len(l) <= 2}

\* the same scheduler on short task lists, started in any of the host
\* environments
InitSetup ==
    InitSched(SetupLists, HostEnvirons) /\ WRIdle /\ RPIdle /\ AFIdle /\ EnvIdle

SpecSetup == InitSetup /\ [][Next]_vars

\* the goroutines are scheduled fairly; Stop and OS signals need not happen
Fairness ==
    /\ WF_vars(RunStep)
    /\ \A i \in 1..MaxTasks : WF_vars(TaskStep(i))
    /\ \A i \in 1..MaxTasks : WF_vars(WorkerFailCheck(i) \/ WorkerFailCancel(i))

FairSpec == Spec /\ Fairness

\* the scheduler together with a client that calls WaitReady at any time
NextWR == Next \/ WRStep

SpecWR == Init /\ [][NextWR]_vars

\* the goroutines are scheduled fairly and the caller of WaitReady keeps
\* running: its ticker fires every second, and its select, which picks at
\* random among the ready cases, does not pass over a ready ctx.Done() for
\* ever; Stop and OS signals need not happen
FairnessWR ==
    /\ WF_vars(WRTick \/ WRCanceled \/ WRCheck)
    /\ SF_vars(WRCanceled)

FairSpecWR == SpecWR /\ Fairness /\ FairnessWR

(***************************************************************************)
(* Supervisor.RunProgram: one call, with its goroutines and its child.     *)
(***************************************************************************)
\* io.Copy on a pipe returns at end of file (every write end is closed) or
\* when its read end is closed under it
PipeEnded ==
    \/ pipesClosed
    \/ child = "failed"
    \/ (child \in {"exited", "reaped"} /\ ~held)

\* the command lines RunProgram is called with
ProgNames == {"git"}

ArgLists == {<<>>, <<"log">>, <<"diff", "--shortstat">>}

\* the words of w with a blank between neighbours, as %s prints a []string
RECURSIVE Spaced(_)
Spaced(w) == IF Len(w) <= 1 THEN w ELSE <<w[1], " ">> \o Spaced(Tail(w))

\* cmdline := fmt.Sprintf("%s", append([]string{prog}, args...))
Cmdline(prog, args) == <<"[">> \o Spaced(<<prog>> \o args) \o <<"]">>

\* err.Error() of what cmd.Wait() returns for a child that ended that way
WaitErrText(status) ==
    IF status = "signaled" THEN "signal: terminated" ELSE "exit status 1"

\* mutant of RPErrorText: the message names the program without its arguments
RPErrorTextProgOnly(prog, args, cause) ==
    <<"[", prog, "]", ": error: ", cause>>

\* fmt.Errorf("%s: error: %v", cmdline, err)
RPErrorText(prog, args, cause) ==
    Cmdline(prog, args) \o <<": error: ", cause>>

\* mutant of RPReturn: the error of cmd.Wait() is looked at first
RPReturnErrFirst(c, e) ==
    IF e # "nil" THEN "cmderr"
    ELSE IF c THEN "canceled"
    ELSE "nil"

\* the value RunProgram returns once cmd.Wait() has returned e
RPReturn(c, e) ==
    IF c THEN "canceled"
    ELSE IF e # "nil" THEN "cmderr"
    ELSE "nil"

\* StdoutPipe, StderrPipe, the two copy goroutines, cmd.Env, the watcher
RPPipes ==
    /\ rppc = "pipes"
    /\ \/ /\ rppc' = "returned"
          /\ rpErr' = "pipe"
          /\ UNCHANGED <<cpOut, cpErr, watcher>>
       \/ /\ rppc' = "start"
          /\ cpOut' = "copying"
          /\ cpErr' = "copying"
          /\ watcher' = "waitctx"
          /\ UNCHANGED rpErr
    /\ UNCHANGED <<rpCtxDone, rpCtxAtResult, exited, process, child, childKind,
                   childStatus, waitErr, held, pipesClosed, sigterms, warned,
                   polled,
                   rpProg, rpArgs, rpErrText>>
    /\ UNCHANGED outsideRP

\* mutant of RPStart: a canceled context is noticed before the child is
\* started (as exec.CommandContext does)
RPStartUnlessCanceled ==
    /\ rppc = "start"
    /\ IF rpCtxDone
       THEN /\ rppc' = "returned"
            /\ rpErr' = "canceled"
            /\ exited' = TRUE
            /\ child' = "failed"
            /\ UNCHANGED process
       ELSE \/ /\ rppc' = "returned"
               /\ rpErr' = "start"
               /\ exited' = TRUE
               /\ child' = "failed"
               /\ UNCHANGED process
            \/ /\ rppc' = "copiers"
               /\ process' = TRUE
               /\ child' = "running"
               /\ UNCHANGED <<rpErr, exited>>
    /\ UNCHANGED <<rpCtxDone, rpCtxAtResult, childKind, childStatus, waitErr,
                   held, pipesClosed, cpOut, cpErr, watcher, sigterms, warned,
                   polled,
                   rpProg, rpArgs, rpErrText>>
    /\ UNCHANGED outsideRP

\* err = cmd.Start(); if err != nil { return err }, with the deferred
\* exited = true
RPStart ==
    /\ rppc = "start"
    /\ \/ /\ rppc' = "returned"
          /\ rpErr' = "start"
          /\ exited' = TRUE
          /\ child' = "failed"
          /\ UNCHANGED process
       \/ /\ rppc' = "copiers"
          /\ process' = TRUE
          /\ child' = "running"
          /\ UNCHANGED <<rpErr, exited>>
    /\ UNCHANGED <<rpCtxDone, rpCtxAtResult, childKind, childStatus, waitErr,
                   held, pipesClosed, cpOut, cpErr, watcher, sigterms, warned,
                   polled,
                   rpProg, rpArgs, rpErrText>>
    /\ UNCHANGED outsideRP

\* mutant of RPCopiersWait: copiers.Wait() is missing
RPCopiersNoWait ==
    /\ rppc = "copiers"
    /\ rppc' = "wait"
    /\ UNCHANGED <<rpCtxDone, rpErr, rpCtxAtResult, exited, process, child,
                   childKind, childStatus, waitErr, held, pipesClosed, cpOut,
                   cpErr, watcher, sigterms, warned,
                   polled,
                   rpProg, rpArgs, rpErrText>>
    /\ UNCHANGED outsideRP

\* copiers.Wait()
RPCopiersWait ==
    /\ rppc = "copiers"
    /\ cpOut = "done" /\ cpErr = "done"
    /\ rppc' = "wait"
    /\ UNCHANGED <<rpCtxDone, rpErr, rpCtxAtResult, exited, process, child,
                   childKind, childStatus, waitErr, held, pipesClosed, cpOut,
                   cpErr, watcher, sigterms, warned,
                   polled,
                   rpProg, rpArgs, rpErrText>>
    /\ UNCHANGED outsideRP

\* err = cmd.Wait(): returns when the child has exited
RPCmdWait ==
    /\ rppc = "wait"
    /\ child = "exited"
    /\ child' = "reaped"
    /\ waitErr' = IF childStatus = "zero" THEN "nil" ELSE "err"
    /\ rppc' = "result"
    /\ UNCHANGED <<rpCtxDone, rpErr, rpCtxAtResult, exited, process, childKind,
                   childStatus, held, pipesClosed, cpOut, cpErr, watcher,
                   sigterms, warned,
                   polled,
                   rpProg, rpArgs, rpErrText>>
    /\ UNCHANGED outsideRP

\* if ctx.Err() != nil {...} else if err != nil {...}; return, with the
\* deferred exited = true
RPResult ==
    /\ rppc = "result"
    /\ rpCtxAtResult' = rpCtxDone
    /\ rpErr' = RPReturn(rpCtxDone, waitErr)
    /\ rpErrText' = IF RPReturn(rpCtxDone, waitErr) = "cmderr"
                    THEN RPErrorText(rpProg, rpArgs, WaitErrText(childStatus))
                    ELSE <<>>
    /\ exited' = TRUE
    /\ rppc' = "returned"
    /\ UNCHANGED <<rpCtxDone, process, child, childKind, childStatus, waitErr,
                   held, pipesClosed, cpOut, cpErr, watcher, sigterms, warned,
                   polled, rpProg, rpArgs>>
    /\ UNCHANGED outsideRP

\* the stdout copy goroutine: io.Copy(...); copiers.Done()
CopierOut ==
    /\ cpOut = "copying"
    /\ PipeEnded
    /\ cpOut' = "done"
    /\ UNCHANGED <<rpCtxDone, rppc, rpErr, rpCtxAtResult, exited, process,
                   child, childKind, childStatus, waitErr, held, pipesClosed,
                   cpErr, watcher, sigterms, warned,
                   polled,
                   rpProg, rpArgs, rpErrText>>
    /\ UNCHANGED outsideRP

\* the stderr copy goroutine: io.Copy(logwriter, stderr); copiers.Done()
CopierErr ==
    /\ cpErr = "copying"
    /\ PipeEnded
    /\ cpErr' = "done"
    /\ UNCHANGED <<rpCtxDone, rppc, rpErr, rpCtxAtResult, exited, process,
                   child, childKind, childStatus, waitErr, held, pipesClosed,
                   cpOut, watcher, sigterms, warned,
                   polled,
                   rpProg, rpArgs, rpErrText>>
    /\ UNCHANGED outsideRP

\* the child ends: a finite program by itself, a service once it was sent
\* SIGTERM, a stubborn one never
ChildExit ==
    /\ child = "running"
    /\ \/ childKind = "finite"
       \/ childKind = "service" /\ sigterms > 0
    /\ child' = "exited"
    /\ childStatus' \in {"zero", "nonzero", "signaled"}
    /\ UNCHANGED <<rpCtxDone, rppc, rpErr, rpCtxAtResult, exited, process,
                   childKind, waitErr, held, pipesClosed, cpOut, cpErr,
                   watcher, sigterms, warned,
                   polled,
                   rpProg, rpArgs, rpErrText>>
    /\ UNCHANGED outsideRP

\* the process that kept the pipes open ends too
PipeRelease ==
    /\ held
    /\ child \in {"exited", "reaped"}
    /\ held' = FALSE
    /\ UNCHANGED <<rpCtxDone, rppc, rpErr, rpCtxAtResult, exited, process,
                   child, childKind, childStatus, waitErr, pipesClosed, cpOut,
                   cpErr, watcher, sigterms, warned,
                   polled,
                   rpProg, rpArgs, rpErrText>>
    /\ UNCHANGED outsideRP

\* the caller's context is canceled
RPCancel ==
    /\ rppc # "idle"
    /\ ~rpCtxDone
    /\ rpCtxDone' = TRUE
    /\ UNCHANGED <<rppc, rpErr, rpCtxAtResult, exited, process, child,
                   childKind, childStatus, waitErr, held, pipesClosed, cpOut,
                   cpErr, watcher, sigterms, warned,
                   polled,
                   rpProg, rpArgs, rpErrText>>
    /\ UNCHANGED outsideRP

\* watcher: <-ctx.Done()
WatcherCtx ==
    /\ watcher = "waitctx"
    /\ rpCtxDone
    /\ watcher' = "loop"
    /\ UNCHANGED <<rpCtxDone, rppc, rpErr, rpCtxAtResult, exited, process,
                   child, childKind, childStatus, waitErr, held, pipesClosed,
                   cpOut, cpErr, sigterms, warned,
                   polled,
                   rpProg, rpArgs, rpErrText>>
    /\ UNCHANGED outsideRP

\* watcher: `for !exited` reads true and the goroutine ends
WatcherSeeExited ==
    /\ watcher = "loop"
    /\ TRUE \in RacyRead(exited)
    /\ watcher' = "done"
    /\ UNCHANGED <<rpCtxDone, rppc, rpErr, rpCtxAtResult, exited, process,
                   child, childKind, childStatus, waitErr, held, pipesClosed,
                   cpOut, cpErr, sigterms, warned,
                   polled,
                   rpProg, rpArgs, rpErrText>>
    /\ UNCHANGED outsideRP

\* watcher: cmd.Process == nil, sleep half a second
WatcherPoll ==
    /\ watcher = "loop"
    /\ FALSE \in RacyRead(exited)
    /\ FALSE \in RacyRead(process)
    /\ watcher' = "poll"
    /\ polled' = TRUE
    /\ UNCHANGED <<rpCtxDone, rppc, rpErr, rpCtxAtResult, exited, process,
                   child, childKind, childStatus, waitErr, held, pipesClosed,
                   cpOut, cpErr, sigterms, warned,
                   rpProg, rpArgs, rpErrText>>
    /\ UNCHANGED outsideRP

\* watcher: the half second is over
WatcherPollWake ==
    /\ watcher = "poll"
    /\ watcher' = "loop"
    /\ UNCHANGED <<rpCtxDone, rppc, rpErr, rpCtxAtResult, exited, process,
                   child, childKind, childStatus, waitErr, held, pipesClosed,
                   cpOut, cpErr, sigterms, warned,
                   polled,
                   rpProg, rpArgs, rpErrText>>
    /\ UNCHANGED outsideRP

\* mutant of WatcherSignal: the watcher signals without looking at
\* cmd.Process first
WatcherSignalBlind ==
    /\ watcher = "loop"
    /\ FALSE \in RacyRead(exited)
    /\ sigterms' = IF sigterms < MaxSigterms THEN sigterms + 1 ELSE sigterms
    /\ watcher' = "grace"
    /\ UNCHANGED <<rpCtxDone, rppc, rpErr, rpCtxAtResult, exited, process,
                   child, childKind, childStatus, waitErr, held, pipesClosed,
                   cpOut, cpErr, warned, polled,
                   rpProg, rpArgs, rpErrText>>
    /\ UNCHANGED outsideRP

\* watcher: cmd.Process.Signal(syscall.SIGTERM), sleep five seconds
WatcherSignal ==
    /\ watcher = "loop"
    /\ FALSE \in RacyRead(exited)
    /\ TRUE \in RacyRead(process)
    /\ sigterms' = IF sigterms < MaxSigterms THEN sigterms + 1 ELSE sigterms
    /\ watcher' = "grace"
    /\ UNCHANGED <<rpCtxDone, rppc, rpErr, rpCtxAtResult, exited, process,
                   child, childKind, childStatus, waitErr, held, pipesClosed,
                   cpOut, cpErr, warned,
                   polled,
                   rpProg, rpArgs, rpErrText>>
    /\ UNCHANGED outsideRP

\* mutant of WatcherGrace: after the five seconds the watcher warns but
\* leaves the pipes open
WatcherGraceNoClose ==
    /\ watcher = "grace"
    /\ \E e \in RacyRead(exited) :
          IF ~e
          THEN warned' = TRUE
          ELSE UNCHANGED warned
    /\ watcher' = "loop"
    /\ UNCHANGED <<rpCtxDone, rppc, rpErr, rpCtxAtResult, exited, process,
                   child, childKind, childStatus, waitErr, held, pipesClosed,
                   cpOut, cpErr, sigterms,
                   polled,
                   rpProg, rpArgs, rpErrText>>
    /\ UNCHANGED outsideRP

\* mutant of WatcherGrace: after the five seconds the watcher also kills
\* the child (cmd.Process.Kill())
WatcherGraceKill ==
    /\ watcher = "grace"
    /\ \E e \in RacyRead(exited) :
          IF ~e
          THEN /\ pipesClosed' = TRUE
               /\ warned' = TRUE
               /\ IF child = "running"
                  THEN child' = "exited" /\ childStatus' = "signaled"
                  ELSE UNCHANGED <<child, childStatus>>
          ELSE UNCHANGED <<pipesClosed, warned, child, childStatus>>
    /\ watcher' = "loop"
    /\ UNCHANGED <<rpCtxDone, rppc, rpErr, rpCtxAtResult, exited, process,
                   childKind, waitErr, held, cpOut, cpErr, sigterms, polled,
                   rpProg, rpArgs, rpErrText>>
    /\ UNCHANGED outsideRP

\* watcher: the five seconds are over; if !exited, close both pipes and warn
WatcherGrace ==
    /\ watcher = "grace"
    /\ \E e \in RacyRead(exited) :
          IF ~e
          THEN /\ pipesClosed' = TRUE
               /\ warned' = TRUE
          ELSE UNCHANGED <<pipesClosed, warned>>
    /\ watcher' = "loop"
    /\ UNCHANGED <<rpCtxDone, rppc, rpErr, rpCtxAtResult, exited, process,
                   child, childKind, childStatus, waitErr, held, cpOut, cpErr,
                   sigterms,
                   polled,
                   rpProg, rpArgs, rpErrText>>
    /\ UNCHANGED outsideRP

\* no supervisor run in progress
SchedIdle ==
    /\ tasks = <<>>
    /\ tasksReady = <<>>
    /\ closes = <<>>
    /\ canceled = FALSE
    /\ cancelCause = "none"
    /\ cancelClean = FALSE
    /\ runpc = "idle"
    /\ osEnviron = <<>>
    /\ runIdx = 1
    /\ runErr = "none"
    /\ healthChecker = FALSE
    /\ waitShutdown = 0
    /\ done = FALSE
    /\ tpc = <<>>
    /\ tIdx = <<>>
    /\ waitRes = <<>>
    /\ runRet = <<>>
    /\ wpc = <<>>
    /\ failLog = <<>>
    /\ panicked = FALSE
    /\ afFailure = "none"
    /\ autofilled = FALSE
    /\ conffile = "absent"
    /\ confWrites = 0
    /\ configfile = <<>>
    /\ spawned = FALSE

\* RunProgram is called, for any kind of child
InitRP ==
    /\ SchedIdle
    /\ rpCtxDone = FALSE
    /\ rppc = "pipes"
    /\ rpErr = "none"
    /\ rpCtxAtResult = FALSE
    /\ exited = FALSE
    /\ process = FALSE
    /\ child = "none"
    /\ childKind \in {"finite", "service", "stubborn"}
    /\ childStatus = "none"
    /\ waitErr = "none"
    /\ held \in BOOLEAN
    /\ pipesClosed = FALSE
    /\ cpOut = "none"
    /\ cpErr = "none"
    /\ watcher = "none"
    /\ sigterms = 0
    /\ warned = FALSE
    /\ polled = FALSE
    /\ rpProg \in ProgNames
    /\ rpArgs \in ArgLists
    /\ rpErrText = <<>>
    /\ WRIdle
    /\ AFIdle
    /\ EnvIdle

NextRP ==
    \/ RPPipes
    \/ RPStart
    \/ RPCopiersWait
    \/ RPCmdWait
    \/ RPResult
    \/ CopierOut
    \/ CopierErr
    \/ ChildExit
    \/ PipeRelease
    \/ RPCancel
    \/ WatcherCtx
    \/ WatcherSeeExited
    \/ WatcherPoll
    \/ WatcherPollWake
    \/ WatcherSignal
    \/ WatcherGrace

SpecRP == InitRP /\ [][NextRP]_vars

\* every goroutine keeps running, a fresh value of a flag is eventually
\* read, and a child that can exit does; cancellation need not happen
FairnessRP ==
    /\ WF_vars(RPPipes \/ RPStart \/ RPCopiersWait \/ RPCmdWait \/ RPResult)
    /\ WF_vars(CopierOut)
    /\ WF_vars(CopierErr)
    /\ WF_vars(ChildExit)
    /\ WF_vars(WatcherCtx \/ WatcherPollWake \/ WatcherGrace)
    /\ SF_vars(WatcherSignal)
    /\ SF_vars(WatcherSeeExited)
    /\ WF_vars(WatcherSeeExited \/ WatcherPoll \/ WatcherSignal)

FairSpecRP == SpecRP /\ FairnessRP

(***************************************************************************)
(* Supervisor.autofillConfig: one call, on a configuration with any of its *)
(* endpoints, secrets and keys already given or left empty.                *)
(***************************************************************************)
\* the services autofillConfig visits, in the order of its loop
Services ==
    <<"Controller", "DispatchCloud", "GitHTTP", "Health", "Keepproxy",
      "Keepstore", "RailsAPI", "WebDAV", "WebDAVDownload", "Websocket",
      "Workbench1">>

ServiceNames == Range(Services)

\* the services that get an https external URL
HTTPSExternal ==
    {"Controller", "GitHTTP", "Keepproxy", "WebDAV", "WebDAVDownload",
     "Workbench1"}

\* SystemRootToken, ManagementToken, API.RailsSessionSecretToken,
\* Collections.BlobSigningKey
SecretNames == {"root", "management", "session", "blobsigning"}

\* arvados.URL{Scheme, Host}; the host is "listen" for super.ListenHost;
\* port 0 stands for no port
URL(s, h, p) == [scheme |-> s, host |-> h, port |-> p]

NoURL == URL("", "", 0)

\* a secret string, of which the alphabet (hexadecimal digits only, or not)
\* and the length are kept
NoSecret == [hex |-> TRUE, len |-> 0]

\* a secret the input configuration gives
GivenSecret == [hex |-> FALSE, len |-> 5]

\* a cluster configuration with nothing but its identifier set
EmptyCluster ==
    [ext      |-> [s \in ServiceNames |-> NoURL],
     int      |-> [s \in ServiceNames |-> {}],
     secrets  |-> [n \in SecretNames |-> NoSecret],
     key      |-> "",
     insecure |-> FALSE,
     volumes  |-> {},
     pg       |-> [dbname |-> "", port |-> 0]]

\* a configuration that gives every external URL but the websocket one (the
\* controller's with a port on the listen host, the others on another host
\* without a port), one keepstore internal URL, one secret and one volume
PartialCluster ==
    [EmptyCluster EXCEPT
        !.ext = [s \in ServiceNames |->
                    IF s = "Controller" THEN URL("https", "listen", 101)
                    ELSE IF s \in HTTPSExternal THEN URL("https", "ext", 0)
                    ELSE NoURL],
        !.int["Keepstore"] = {URL("http", "listen", 102)},
        !.secrets["root"] = GivenSecret,
        !.volumes = {[num |-> 7, url |-> URL("http", "listen", 102)]}]

\* the place of a service in the loop
ServiceIndex(s) == CHOOSE i \in DOMAIN Services : Services[i] = s

\* a configuration with every endpoint, secret and key given, each internal
\* URL with a port of its own
FullCluster ==
    [ext      |-> [s \in ServiceNames |->
                     URL(IF s = "Websocket" THEN "wss" ELSE "https", "ext", 0)],
     int      |-> [s \in ServiceNames |->
                     {URL("http", "listen", 110 + ServiceIndex(s))}],
     secrets  |-> [n \in SecretNames |-> GivenSecret],
     key      |-> "given",
     insecure |-> FALSE,
     volumes  |-> {},
     pg       |-> [dbname |-> "", port |-> 0]]

InputClusters == {EmptyCluster, PartialCluster, FullCluster}

\* super.ControllerAddr: malformed, ":0", or a host with an explicit port
ControllerAddrs ==
    { [ok |-> FALSE, host |-> "", port |-> 0],
      [ok |-> TRUE, host |-> "", port |-> 0],
      [ok |-> TRUE, host |-> "ctrl", port |-> 104] }

\* the calls autofillConfig is given: ControllerAddr matters only when the
\* controller has no external URL, the other inputs only when there is a
\* cluster, and keepN.data directories only under "test"
AutofillInputs ==
    {in \in [type : {"test", "development", "production"}, db : BOOLEAN,
             addr : ControllerAddrs, n : {0, 1}, cfg : InputClusters,
             dirs : {{}, {0}}] :
        /\ in.cfg.ext["Controller"].host # "" => in.addr.ok /\ in.addr.port = 0
        /\ in.n = 0 => (in.cfg = EmptyCluster /\ in.type = "test" /\ ~in.db
                           /\ in.addr.ok /\ in.addr.port = 0)
        /\ in.dirs # {} => (in.type = "test" /\ in.n = 1)}

\* the ports the input names: the operating system knows nothing of them
InputPorts ==
    {cfgIn.ext[s].port : s \in ServiceNames}
      \cup UNION {{u.port : u \in cfgIn.int[s]} : s \in ServiceNames}
      \cup {ctrlAddr.port}

\* the ports below 100 are the ones the operating system hands out first
FreshPort == 1 + Cardinality({p \in usedPort : p < 100})

\* availablePort(host): Listen on port 0 and read the port back.  The port is
\* free at that moment, which a port returned earlier is again (its listener
\* was closed) and a port named in the input is too; among the ports never
\* seen before, which one comes is immaterial, so the lowest stands for
\* them.  0 stands for the error of Listen.
Offers == (usedPort \cup InputPorts \cup {FreshPort}) \ {0}

\* mutant of UsedPort: nextPort does not look at usedPort
UsedPortNever(p) == FALSE

\* nextPort: if usedPort[port] { continue }
UsedPort(p) == p \in usedPort

\* step f of autofillConfig fails: it returns the error or panics with it
AFFail(f) ==
    /\ afpc' = IF AutofillOutcome(f) = "panic" THEN "panic" ELSE "error"
    /\ afErr' = f
    /\ UNCHANGED <<afIdx, usedPort, portLog, retries, cluster, cfgOut,
                   volTodo, dirs>>

\* nextPort: port, err := availablePort(host); if err != nil { panic(err) }
NextPortPanic == AFFail("bind")

\* nextPort: the port is marked used already, the loop goes round again
NextPortRetry ==
    /\ retries' = IF retries < MaxRetries THEN retries + 1 ELSE retries
    /\ UNCHANGED <<afpc, afErr, afIdx, usedPort, portLog, cluster, cfgOut,
                   volTodo, dirs>>

\* nextPort: usedPort[port] = true; return port
NextPortTake(p) ==
    /\ usedPort' = usedPort \cup {p}
    /\ portLog' = Append(portLog, p)
    /\ UNCHANGED retries

\* a step of autofillConfig that changes nothing but its position
AFGoto(pc) ==
    /\ afpc' = pc
    /\ UNCHANGED <<afErr, afIdx, usedPort, portLog, retries, cluster, cfgOut,
                   volTodo, dirs>>

\* if err != nil { return err }
AFReturnErr(e) == AFFail(e)

afInputs == <<clusterType, ownDB, ctrlAddr, clusters, cfgIn>>

\* cluster, err := cfg.GetCluster("")
AFCluster ==
    /\ afpc = "cluster"
    /\ IF clusters # 1
       THEN AFReturnErr("nocluster")
       ELSE AFGoto("controller")
    /\ UNCHANGED afInputs
    /\ UNCHANGED outsideAF

\* if cluster.Services.Controller.ExternalURL.Host == "" {...}
AFController ==
    /\ afpc = "controller"
    /\ IF cluster.ext["Controller"].host # ""
       THEN AFGoto("svcext")
       ELSE IF ~ctrlAddr.ok
       THEN AFReturnErr("badaddr")
       ELSE LET h == IF ctrlAddr.host = "" THEN "listen" ELSE ctrlAddr.host
            IN  IF ctrlAddr.port # 0
                THEN /\ cluster' = [cluster EXCEPT !.ext["Controller"] =
                                        URL("https", h, ctrlAddr.port)]
                     /\ afpc' = "svcext"
                     /\ UNCHANGED <<afErr, afIdx, usedPort, portLog, retries,
                                    cfgOut, volTodo, dirs>>
                ELSE \E o \in Offers \cup {0} :
                        IF o = 0 THEN NextPortPanic
                        ELSE IF UsedPort(o) THEN NextPortRetry
                        ELSE /\ NextPortTake(o)
                             /\ cluster' = [cluster EXCEPT !.ext["Controller"] =
                                                URL("https", h, o)]
                             /\ afpc' = "svcext"
                             /\ UNCHANGED <<afErr, afIdx, cfgOut, volTodo, dirs>>
    /\ UNCHANGED afInputs
    /\ UNCHANGED outsideAF

\* mutant of Skipped: the loop visits every service in every run mode
SkippedNever(svc) == FALSE

\* if svc == &cluster.Services.DispatchCloud && super.ClusterType == "test"
\* { continue }
Skipped(svc) == svc = "DispatchCloud" /\ clusterType = "test"

\* one pass of the loop over the services, first half: the DispatchCloud
\* skip under "test", and the external URL
AFSvcExt ==
    /\ afpc = "svcext"
    /\ IF afIdx > Len(Services)
       THEN AFGoto("secrets")
       ELSE LET svc == Services[afIdx]
            IN  IF Skipped(svc)
                THEN /\ afIdx' = afIdx + 1
                     /\ UNCHANGED <<afpc, afErr, usedPort, portLog, retries,
                                    cluster, cfgOut, volTodo, dirs>>
                ELSE IF /\ cluster.ext[svc].host = ""
                        /\ svc \in HTTPSExternal \cup {"Websocket"}
                THEN \E o \in Offers \cup {0} :
                        IF o = 0 THEN NextPortPanic
                        ELSE IF UsedPort(o) THEN NextPortRetry
                        ELSE /\ NextPortTake(o)
                             /\ cluster' = [cluster EXCEPT !.ext[svc] =
                                   URL(IF svc = "Websocket" THEN "wss" ELSE "https",
                                       "listen", o)]
                             /\ afpc' = "svcint"
                             /\ UNCHANGED <<afErr, afIdx, cfgOut, volTodo, dirs>>
                ELSE AFGoto("svcint")
    /\ UNCHANGED afInputs
    /\ UNCHANGED outsideAF

\* one pass of the loop over the services, second half:
\* if len(svc.InternalURLs) == 0 {...}
AFSvcInt ==
    /\ afpc = "svcint"
    /\ LET svc == Services[afIdx]
       IN  IF cluster.int[svc] = {}
           THEN \E o \in Offers \cup {0} :
                   IF o = 0 THEN NextPortPanic
                   ELSE IF UsedPort(o) THEN NextPortRetry
                   ELSE /\ NextPortTake(o)
                        /\ cluster' = [cluster EXCEPT !.int[svc] =
                                           {URL("http", "listen", o)}]
                        /\ afpc' = "svcext"
                        /\ afIdx' = afIdx + 1
                        /\ UNCHANGED <<afErr, cfgOut, volTodo, dirs>>
           ELSE /\ afpc' = "svcext"
                /\ afIdx' = afIdx + 1
                /\ UNCHANGED <<afErr, usedPort, portLog, retries, cluster,
                               cfgOut, volTodo, dirs>>
    /\ UNCHANGED afInputs
    /\ UNCHANGED outsideAF

\* mutant of RandomHexString: one random byte for every character asked for
RandomHexStringBytes(chars) == [hex |-> TRUE, len |-> 2 * chars]

\* randomHexString(chars): chars/2 random bytes printed with %x, two
\* hexadecimal digits for each byte (the panic of a failing rand.Read is
\* AFFail("rand"))
RandomHexString(chars) == [hex |-> TRUE, len |-> 2 * (chars \div 2)]

\* the four `if ... == "" { ... = randomHexString(64) }`
AFSecrets ==
    /\ afpc = "secrets"
    /\ \/ /\ cluster' = [cluster EXCEPT !.secrets =
                 [n \in SecretNames |->
                     IF cluster.secrets[n] = NoSecret
                     THEN RandomHexString(64)
                     ELSE cluster.secrets[n]]]
          /\ afpc' = "key"
          /\ UNCHANGED <<afErr, afIdx, usedPort, portLog, retries, cfgOut,
                         volTodo, dirs>>
       \/ /\ \E n \in SecretNames : cluster.secrets[n] = NoSecret
          /\ AFFail("rand")
    /\ UNCHANGED afInputs
    /\ UNCHANGED outsideAF

\* the dispatch key read from the source tree, and TLS.Insecure
AFKey ==
    /\ afpc = "key"
    /\ IF clusterType # "production" /\ cluster.key = ""
       THEN \/ AFReturnErr("readkey")
            \/ /\ cluster' = [cluster EXCEPT !.key = "sshkey_dispatch",
                                             !.insecure = TRUE]
               /\ afpc' = "test"
               /\ UNCHANGED <<afErr, afIdx, usedPort, portLog, retries, cfgOut,
                              volTodo, dirs>>
       ELSE /\ cluster' = [cluster EXCEPT !.insecure =
                              IF clusterType # "production" THEN TRUE ELSE @]
            /\ afpc' = "test"
            /\ UNCHANGED <<afErr, afIdx, usedPort, portLog, retries, cfgOut,
                           volTodo, dirs>>
    /\ UNCHANGED afInputs
    /\ UNCHANGED outsideAF

\* if super.ClusterType == "test": the second keepstore URL, and
\* cluster.Volumes = map...{}
AFTest ==
    /\ afpc = "test"
    /\ IF clusterType # "test"
       THEN AFGoto("db")
       ELSE \E o \in Offers \cup {0} :
               IF o = 0 THEN NextPortPanic
               ELSE IF UsedPort(o) THEN NextPortRetry
               ELSE /\ NextPortTake(o)
                    /\ cluster' = [cluster EXCEPT
                          !.int["Keepstore"] = @ \cup {URL("http", "listen", o)},
                          !.volumes = {}]
                    /\ volTodo' = cluster.int["Keepstore"] \cup {URL("http", "listen", o)}
                    /\ afpc' = "volumes"
                    /\ UNCHANGED <<afErr, afIdx, cfgOut, dirs>>
    /\ UNCHANGED afInputs
    /\ UNCHANGED outsideAF

\* one pass of `for url := range cluster.Services.Keepstore.InternalURLs`,
\* in the order the map happens to give
AFVolume ==
    /\ afpc = "volumes"
    /\ IF volTodo = {}
       THEN AFGoto("db")
       ELSE \E url \in volTodo :
               LET volnum == Cardinality(cluster.volumes)
                   add == /\ cluster' = [cluster EXCEPT !.volumes =
                                            @ \cup {[num |-> volnum, url |-> url]}]
                          /\ volTodo' = volTodo \ {url}
                          /\ UNCHANGED <<afpc, afErr, afIdx, usedPort, portLog,
                                         retries, cfgOut>>
               IN  IF volnum \in dirs
                   THEN \/ add /\ UNCHANGED dirs
                        \/ AFReturnErr("stat")
                   ELSE \/ add /\ dirs' = dirs \cup {volnum}
                        \/ AFReturnErr("stat")
                        \/ AFReturnErr("mkdir")
    /\ UNCHANGED afInputs
    /\ UNCHANGED outsideAF

\* mutant of PostgreSQLConnection: the database is named after the cluster
PostgreSQLConnectionPlain(port) == [dbname |-> "arvados", port |-> port]

\* arvados.PostgreSQLConnection{..., "port": nextPort(...), "dbname":
\* "arvados_test", ...}: of the fixed entries the database name is kept
PostgreSQLConnection(port) == [dbname |-> "arvados_test", port |-> port]

\* if super.OwnTemporaryDatabase {...}
AFDatabase ==
    /\ afpc = "db"
    /\ IF ~ownDB
       THEN AFGoto("store")
       ELSE \E o \in Offers \cup {0} :
               IF o = 0 THEN NextPortPanic
               ELSE IF UsedPort(o) THEN NextPortRetry
               ELSE /\ NextPortTake(o)
                    /\ cluster' = [cluster EXCEPT !.pg = PostgreSQLConnection(o)]
                    /\ afpc' = "store"
                    /\ UNCHANGED <<afErr, afIdx, cfgOut, volTodo, dirs>>
    /\ UNCHANGED afInputs
    /\ UNCHANGED outsideAF

\* cfg.Clusters[cluster.ClusterID] = *cluster; return nil
AFStore ==
    /\ afpc = "store"
    /\ cfgOut' = <<cluster>>
    /\ afpc' = "done"
    /\ UNCHANGED <<afErr, afIdx, usedPort, portLog, retries, cluster, volTodo,
                   dirs>>
    /\ UNCHANGED afInputs
    /\ UNCHANGED outsideAF

\* autofillConfig is called, in any run mode, on any of the configurations
InitAF ==
    /\ SchedIdle /\ WRIdle /\ RPIdle /\ EnvIdle
    /\ \E in \in AutofillInputs :
          /\ clusterType = in.type
          /\ ownDB = in.db
          /\ ctrlAddr = in.addr
          /\ clusters = in.n
          /\ cfgIn = in.cfg
          /\ dirs = in.dirs
    /\ cluster = cfgIn
    /\ cfgOut = <<>>
    /\ afpc = "cluster"
    /\ afErr = "none"
    /\ afIdx = 1
    /\ usedPort = {}
    /\ portLog = <<>>
    /\ retries = 0
    /\ volTodo = {}

NextAF ==
    \/ AFCluster
    \/ AFController
    \/ AFSvcExt
    \/ AFSvcInt
    \/ AFSecrets
    \/ AFKey
    \/ AFTest
    \/ AFVolume
    \/ AFDatabase
    \/ AFStore

SpecAutofill == InitAF /\ [][NextAF]_vars

(***************************************************************************)
(* dedupEnv, and the environment RunProgram builds for its child.  An      *)
(* entry is the sequence of its characters.                                *)
(***************************************************************************)
\* longest list of extra entries, and longest supervisor environment
MaxEnv == 2

\* KEY=VALUE entries (one with an empty value, one with a '=' inside the
\* value), an entry without '=' and an entry with an empty key
EnvEntries ==
    { <<"A", "=", "1">>, <<"A", "=", "2">>, <<"B", "=", "1">>, <<"B", "=">>,
      <<"A", "=", "B", "=", "2">>, <<"A">>, <<"=", "1">> }

\* the lists of at most n entries
EnvLists(n) == UNION {[1..k -> EnvEntries] : k \in 0..n}

\* strings.Index(kv, c) for a one-character c: the index, from 0, of its
\* first occurrence, or -1
Index(kv, c) ==
    IF \E i \in 1..Len(kv) : kv[i] = c
    THEN (CHOOSE i \in 1..Len(kv) :
             kv[i] = c /\ \A j \in 1..(i - 1) : kv[j] # c) - 1
    ELSE -1

\* the loop of dedupEnv from entry i on; a panic loses `out`
RECURSIVE DedupLoop(_, _, _, _)
\* mutant of DedupLoop: the keys met are not recorded
DedupLoopForgetful(in, i, saw, out) ==
    IF i > Len(in) THEN [panic |-> FALSE, out |-> out]
    ELSE LET kv == in[i]
             split == Index(kv, "=")
         IN  IF split < 1 THEN [panic |-> TRUE, out |-> <<>>]
             ELSE IF SubSeq(kv, 1, split) \in saw
             THEN DedupLoop(in, i + 1, saw, out)
             ELSE DedupLoop(in, i + 1, saw, Append(out, kv))

\* mutant of DedupLoop: an entry whose key was seen is passed over before it
\* is looked at
DedupLoopLax(in, i, saw, out) ==
    IF i > Len(in) THEN [panic |-> FALSE, out |-> out]
    ELSE LET kv == in[i]
             split == Index(kv, "=")
             key == SubSeq(kv, 1, IF split < 0 THEN Len(kv) ELSE split)
         IN  IF key \in saw THEN DedupLoop(in, i + 1, saw, out)
             ELSE IF split < 1 THEN [panic |-> TRUE, out |-> <<>>]
             ELSE DedupLoop(in, i + 1, saw \cup {key}, Append(out, kv))

DedupLoop(in, i, saw, out) ==
    IF i > Len(in) THEN [panic |-> FALSE, out |-> out]
    ELSE LET kv == in[i]
             split == Index(kv, "=")
         IN  IF split < 1 THEN [panic |-> TRUE, out |-> <<>>]
             ELSE IF SubSeq(kv, 1, split) \in saw
             THEN DedupLoop(in, i + 1, saw, out)
             ELSE DedupLoop(in, i + 1, saw \cup {SubSeq(kv, 1, split)},
                            Append(out, kv))

\* mutant of DedupEnv: the loop starts at the second entry
DedupEnvFromSecond(in) == DedupLoop(in, 2, {}, <<>>)

\* dedupEnv(in): saw := map[string]bool{}; var out []string; the loop
DedupEnv(in) == DedupLoop(in, 1, {}, <<>>)

\* mutant of MergeEnv: the supervisor's entries come first
MergeEnvInherited(env, inherited) == inherited \o env

\* env = append([]string(nil), env...); env = append(env, super.environ...)
MergeEnv(env, inherited) == env \o inherited

\* RunProgram, lines 450-451: the copy of env and the append of
\* super.environ to the copy
RPEnvMerge ==
    /\ envpc = "call"
    /\ envIn' = MergeEnv(rpEnv, environ)
    /\ envpc' = "merged"
    /\ UNCHANGED <<rpEnv, environ, cmdEnv, envOp, envCalls>>
    /\ UNCHANGED outsideEnv

\* RunProgram, line 452: cmd.Env = dedupEnv(env)
RPEnvDedup ==
    /\ envpc = "merged"
    /\ LET r == DedupEnv(envIn)
       IN  IF r.panic
           THEN /\ envpc' = "panic"
                /\ UNCHANGED cmdEnv
           ELSE /\ envpc' = "set"
                /\ cmdEnv' = r.out
    /\ UNCHANGED <<rpEnv, environ, envIn, envOp, envCalls>>
    /\ UNCHANGED outsideEnv

\* RunProgram is called with any extra entries, on any supervisor environment
InitEnv ==
    /\ SchedIdle /\ WRIdle /\ RPIdle /\ AFIdle
    /\ rpEnv \in EnvLists(MaxEnv)
    /\ environ \in EnvLists(MaxEnv)
    /\ envIn = <<>>
    /\ cmdEnv = <<>>
    /\ envpc = "call"
    /\ envOp = NoEnvOp
    /\ envCalls = 0

NextEnv ==
    \/ RPEnvMerge
    \/ RPEnvDedup

SpecEnv == InitEnv /\ [][NextEnv]_vars

(***************************************************************************)
(* setEnv, prependEnv and cleanEnv called one after another on any         *)
(* supervisor environment.                                                 *)
(***************************************************************************)
\* the calls are counted up to this number
MaxOps == 2

\* the entries of EnvEntries, and one whose key AB begins with the key A
OpsEntries == EnvEntries \cup {<<"A", "B", "=", "1">>}

\* the keys, values, prepended texts and prefix lists the calls are given
OpsKeys == {<<"A">>, <<"B">>}

OpsValues == {<<>>, <<"2">>}

OpsPrepends == {<<"2">>}

OpsPrefixes ==
    {<<<<"A">>>>, <<<<"B", "=">>>>, <<<<"A", "=", "1">>>>,
     <<<<"B", "=">>, <<"A", "B">>>>}

\* super.setEnv(key, val)
EnvSetEnv(key, val) ==
    /\ envpc = "ops" /\ envCalls < MaxOps
    /\ environ' = SetEnv(environ, key, val)
    /\ envOp' = EnvOp("setEnv", key, val, <<>>)
    /\ envCalls' = envCalls + 1
    /\ UNCHANGED <<rpEnv, envIn, cmdEnv, envpc>>
    /\ UNCHANGED outsideEnv

\* super.prependEnv(key, prepend)
EnvPrependEnv(key, prepend) ==
    /\ envpc = "ops" /\ envCalls < MaxOps
    /\ environ' = PrependEnv(environ, key, prepend)
    /\ envOp' = EnvOp("prependEnv", key, prepend, <<>>)
    /\ envCalls' = envCalls + 1
    /\ UNCHANGED <<rpEnv, envIn, cmdEnv, envpc>>
    /\ UNCHANGED outsideEnv

\* super.cleanEnv(prefixes)
EnvCleanEnv(prefixes) ==
    /\ envpc = "ops" /\ envCalls < MaxOps
    /\ environ' = CleanEnv(environ, prefixes)
    /\ envOp' = EnvOp("cleanEnv", <<>>, <<>>, prefixes)
    /\ envCalls' = envCalls + 1
    /\ UNCHANGED <<rpEnv, envIn, cmdEnv, envpc>>
    /\ UNCHANGED outsideEnv

\* any supervisor environment, before the first call
InitEnvOps ==
    /\ SchedIdle /\ WRIdle /\ RPIdle /\ AFIdle
    /\ rpEnv = <<>>
    /\ environ \in UNION {[1..k -> OpsEntries] : k \in 0..MaxEnv}
    /\ envIn = <<>>
    /\ cmdEnv = <<>>
    /\ envpc = "ops"
    /\ envOp = NoEnvOp
    /\ envCalls = 0

NextEnvOps ==
    \/ \E key \in OpsKeys, val \in OpsValues : EnvSetEnv(key, val)
    \/ \E key \in OpsKeys, prepend \in OpsPrepends : EnvPrependEnv(key, prepend)
    \/ \E prefixes \in OpsPrefixes : EnvCleanEnv(prefixes)

SpecEnvOps == InitEnvOps /\ [][NextEnvOps]_vars

(***************************************************************************)
(* Properties of the scheduler.                                            *)
(***************************************************************************)
TaskNamed(n) == {j \in DOMAIN tasks : tasks[j].name = n}

ListABC == <<Task("A", <<>>), Task("B", <<"A">>), Task("C", <<"A", "B">>)>>

\* C1: wait returns nil (and passes a name) only when that name's readiness
\* signal is closed, and a signal is closed only by a goroutine whose task's
\* Run returned nil; so a task's work begins only after the Run of every
\* task it waits on has returned nil (B after A, C after A and B), and run's
\* own wait ends only when every listed task is ready.
C1_WaitOrder ==
    /\ \A i \in DOMAIN tasks :
          /\ \A k \in DOMAIN tasks[i].depends :
                (k < tIdx[i] \/ waitRes[i] = "nil")
                    => IsClosed(tasks[i].depends[k])
          /\ (tpc[i] \in {"work", "close"} \/ runRet[i] = "nil")
                => /\ waitRes[i] = "nil"
                   /\ \A d \in Range(tasks[i].depends) :
                         \E j \in TaskNamed(d) : runRet[j] = "nil"
    /\ \A n \in DOMAIN tasksReady :
          tasksReady[n] = "closed"
              => \E j \in TaskNamed(n) : runRet[j] = "nil" /\ tpc[j] = "done"
    /\ runpc = "wait"
          => \A k \in DOMAIN tasks : k < runIdx => IsClosed(tasks[k].name)
    /\ (runpc \in {"health", "blocked", "shutdown"} \/ healthChecker)
          => \A k \in DOMAIN tasks : IsClosed(tasks[k].name)

\* C1 witness: in the list A, B (waits on A), C (waits on A and B), C's
\* wait has returned nil and C has begun its work.
C1_Witness ==
    /\ tasks = ListABC
    /\ waitRes[3] = "nil"
    /\ tpc[3] = "work"

\* C2: the readiness signal of a task whose Run returned an error is never
\* closed; no wait naming it returns nil, and a wait that ended at it ended
\* with the cancellation error, the context being canceled.
C2_FailedNeverReady ==
    \A i \in DOMAIN tasks :
        runRet[i] = "err" =>
            /\ closes[tasks[i].name] = 0
            /\ ~IsClosed(tasks[i].name)
            /\ \A j \in DOMAIN tasks :
                  tasks[i].name \in Range(tasks[j].depends) =>
                      /\ waitRes[j] # "nil"
                      /\ ( /\ waitRes[j] # "none"
                           /\ tIdx[j] \in DOMAIN tasks[j].depends
                           /\ tasks[j].depends[tIdx[j]] = tasks[i].name )
                            => (waitRes[j] = "canceled" /\ canceled)
            /\ (runpc = "returned" /\ runIdx = i /\ runErr # "setup")
                  => (runErr = "canceled" /\ canceled)

\* C2 witness: a task's own work failed, and a task that waits on it got the
\* cancellation error from its wait.
C2_Witness ==
    \E i, j \in DOMAIN tasks :
        /\ runRet[i] = "err" /\ waitRes[i] = "nil"
        /\ tIdx[j] \in DOMAIN tasks[j].depends
        /\ tasks[j].depends[tIdx[j]] = tasks[i].name
        /\ waitRes[j] = "canceled"

C4_FailureCancels ==
    \A i \in DOMAIN tasks :
        (runRet[i] = "err" /\ tpc[i] = "done") =>
            /\ CtxErr = "canceled"
            /\ \A n \in DOMAIN tasksReady : "canceled" \in WaitSelect(n)

\* C4 witness: a task's work failed while the context was live, and its
\* goroutine ended after canceling it.
C4_Witness ==
    \E i \in DOMAIN tasks :
        /\ runRet[i] = "err" /\ waitRes[i] = "nil" /\ tpc[i] = "done"
        /\ cancelCause = "task"
        /\ failLog = <<tasks[i].name>>

AnyRunFailed == \E i \in DOMAIN tasks : runRet[i] = "err"

\* C5: once a task's Run has returned an error, run never installs the
\* health aggregator and never returns nil, and it eventually returns a
\* non-nil error.
C5_FailureSurfaces ==
    /\ [](AnyRunFailed => (~healthChecker /\ runpc # "health" /\ runErr # "nil"))
    /\ AnyRunFailed ~> (runpc = "returned" /\ runErr \notin {"none", "nil"})

\* C5 witness: a task's Run returned an error and run returned the
\* cancellation error.
C5_Witness ==
    /\ AnyRunFailed
    /\ runpc = "returned" /\ runErr = "canceled"
    /\ done

CleanBringUp == healthChecker /\ \A k \in DOMAIN tasks : IsClosed(tasks[k].name)

\* C6 as stated: run returns nil exactly when every task became ready and
\* cancellation was then requested from outside, a non-nil error otherwise.
C6_Original ==
    runpc = "returned" =>
        ((runErr = "nil") = (CleanBringUp /\ cancelClean /\ cancelCause = "external"))

\* C6 amended: run never returns nil.  After a clean bring-up it returns only
\* once the context is canceled, and what it returns is the context's
\* cancellation error, also when the cancellation came from Stop or an OS
\* signal; in every other situation it returns a non-nil error as well.
C6_NeverNil ==
    runpc = "returned" =>
        /\ runErr \in {"setup", "nosuchtask", "canceled"} \cup AutofillFailures
        /\ CleanBringUp => (runErr = "canceled" /\ canceled /\ waitShutdown = 0)
        /\ runErr = "canceled" => canceled

\* C6 witness: every task became ready, Stop (or a signal) canceled the
\* context and run returned.
C6_Witness ==
    /\ runpc = "returned"
    /\ Len(tasks) = 3
    /\ CleanBringUp
    /\ cancelClean /\ cancelCause = "external"
    /\ runErr = "canceled"

\* C7: when the dependencies are acyclic, from the moment run allocates the
\* readiness signals it leads to: the context canceled (which every failing
\* Run brings about), or every signal closed with run past its wait, the
\* health aggregator installed and run blocked on ctx.Done().
C7_BringUp ==
    (runpc = "alloc" /\ Acyclic(tasks))
        ~> ( \/ canceled
             \/ /\ runpc = "blocked"
                /\ healthChecker
                /\ \A k \in DOMAIN tasks : closes[tasks[k].name] = 1 )

\* C7 witness: three tasks all ready, the aggregator installed, run blocked
\* and the context not canceled.
C7_Witness ==
    /\ Len(tasks) = 3 /\ Acyclic(tasks)
    /\ runpc = "blocked" /\ healthChecker /\ ~canceled
    /\ \A k \in DOMAIN tasks : closes[tasks[k].name] = 1

(***************************************************************************)
(* Properties of RunProgram.                                               *)
(***************************************************************************)
\* C8: when RunProgram returns after the child was started and ctx.Err() is
\* non-nil at its check, it returns the cancellation error whatever the
\* error of cmd.Wait() was, never the command error.
C8_CancelWins ==
    (rppc = "returned" /\ process /\ rpCtxAtResult) => rpErr = "canceled"

\* C8 witness: the child ended with a failure status, the context was
\* canceled, and RunProgram returned the cancellation error.
C8_Witness ==
    /\ rppc = "returned" /\ rpCtxAtResult
    /\ waitErr = "err" /\ childStatus = "nonzero"
    /\ rpErr = "canceled"

ChildRunningCanceled ==
    /\ rppc \in {"copiers", "wait"}
    /\ child = "running"
    /\ rpCtxDone

\* C9 as stated: if the context is canceled while the child is running,
\* RunProgram eventually returns the cancellation error, whatever the child
\* does.
C9_Original ==
    ChildRunningCanceled ~> (rppc = "returned" /\ rpErr = "canceled")

\* C9 amended: if the context is canceled while the child is running and the
\* child exits (by itself or on SIGTERM), RunProgram eventually returns the
\* cancellation error; with a child that never exits it never returns.
C9_ReturnsIfChildExits ==
    /\ (ChildRunningCanceled /\ childKind # "stubborn")
          ~> (rppc = "returned" /\ rpErr = "canceled")
    /\ []((childKind = "stubborn" /\ process) => rppc # "returned")

\* C9 witness: a service child was sent SIGTERM, the pipes stayed open past
\* the grace period and were force-closed, and RunProgram returned the
\* cancellation error.
C9_Witness ==
    /\ childKind = "service" /\ held
    /\ pipesClosed /\ warned
    /\ rppc = "returned" /\ rpErr = "canceled"

\* C10: when the child was started, RunProgram returns only after both copy
\* loops have finished and the child has exited and been waited for.
C10_ReturnsAfterCopiersAndExit ==
    (rppc = "returned" /\ process) =>
        /\ cpOut = "done"
        /\ cpErr = "done"
        /\ child = "reaped"
        /\ waitErr # "none"

\* C10 witness: the child ran to a zero exit with no cancellation and
\* RunProgram returned nil.
C10_Witness ==
    /\ rppc = "returned" /\ process
    /\ ~rpCtxDone
    /\ rpErr = "nil"

\* C11: the cancellation watcher never ends the child itself: no step of the
\* watcher changes the child's state, RunProgram's position or its result,
\* so a child that ignores SIGTERM keeps running; the only effects of the
\* 5-second timeout are the closed pipes and the warning, which come after a
\* SIGTERM; and what RunProgram returns after the child ran is decided by
\* ctx.Err() and the error of cmd.Wait() alone.
C11_OnlySigterm ==
    /\ [][(watcher # "none" /\ watcher' # watcher)
             => UNCHANGED <<child, childStatus, waitErr, rpErr, rppc, process,
                            exited, held, rpCtxDone>>]_vars
    /\ [][warned' # warned
             => (warned' /\ pipesClosed' /\ sigterms > 0 /\ watcher = "grace")]_vars
    /\ [](childKind = "stubborn" => child \in {"none", "running", "failed"})
    /\ []((rppc = "returned" /\ process)
             => rpErr = RPReturn(rpCtxAtResult, waitErr))

\* C11 witness: a child that ignores SIGTERM was signaled twice, the pipes
\* were force-closed with a warning, and the child is still running with
\* RunProgram blocked in cmd.Wait().
C11_Witness ==
    /\ childKind = "stubborn" /\ child = "running"
    /\ sigterms >= 2
    /\ warned /\ pipesClosed
    /\ rppc = "wait"

\* C12: a SIGTERM is sent only when the process handle exists (cmd.Start
\* succeeded), after cancellation; when the start failed no signal is ever
\* sent.  If the context is canceled before cmd.Start, the watcher ends up
\* signaling the started child or stopping because RunProgram has returned;
\* after a failed start it stops.
C12_SignalOnlyStarted ==
    /\ [](sigterms > 0 => (process /\ rpCtxDone))
    /\ [][sigterms' # sigterms => (process /\ watcher = "loop")]_vars
    /\ [](child = "failed" => (sigterms = 0 /\ ~process))
    /\ (rpCtxDone /\ rppc = "start") ~> (watcher = "done" \/ sigterms > 0)
    /\ (rpCtxDone /\ child = "failed") ~> (watcher = "done" /\ sigterms = 0)

\* C12 witness: the context was canceled before the child started, the
\* watcher found no process and slept, and once the child ran it was sent
\* SIGTERM.
C12_Witness ==
    /\ polled
    /\ process /\ child = "running"
    /\ sigterms > 0


\* C13: when RunProgram reaches its result with ctx.Err() nil after
\* cmd.Wait() returned, it returns nil if the child's exit status was zero;
\* otherwise it returns an error of its own whose text begins with the whole
\* command line (the program name followed by every argument, in order) and
\* ends with the error of cmd.Wait().
C13_ExitResult ==
    (rppc = "returned" /\ process /\ ~rpCtxAtResult) =>
        IF childStatus = "zero"
        THEN rpErr = "nil" /\ rpErrText = <<>>
        ELSE /\ rpErr = "cmderr"
             /\ Len(rpErrText) = 2 * Len(rpArgs) + 5
             /\ SubSeq(rpErrText, 1, 2 * Len(rpArgs) + 3)
                   = <<"[">> \o Spaced(<<rpProg>> \o rpArgs) \o <<"]">>
             /\ rpErrText[2] = rpProg
             /\ \A k \in DOMAIN rpArgs : rpErrText[2 * k + 2] = rpArgs[k]
             /\ rpErrText[Len(rpErrText)] = WaitErrText(childStatus)

\* C13 witness: a command with two arguments ended with a non-zero status,
\* the context was not canceled, and RunProgram returned its own error.
C13_Witness ==
    /\ rppc = "returned" /\ ~rpCtxDone
    /\ Len(rpArgs) = 2
    /\ childStatus = "nonzero"
    /\ rpErr = "cmderr"


\* C14: whenever run returns after it started task goroutines, the shutdown
\* wait group is at zero at that moment: no worker registered in it is
\* still running.
C14_WaitsForWorkers ==
    [][(runpc # "returned" /\ runpc' = "returned"
          /\ \E i \in DOMAIN tasks : tpc[i] # "unstarted")
       => waitShutdown = 0]_vars


\* task i's goroutine is inside wait
InWait(i) == i \in DOMAIN tasks /\ tpc[i] = "wait"

\* C15: once the shared context is canceled, the select of every wait in
\* progress has its ctx.Done() branch ready, so no wait blocks on a
\* readiness signal any more; every task that is inside wait, or enters it
\* later, leaves it, and so does run: from some point on nobody is in wait.
C15_CancelUnblocks ==
    /\ [](canceled =>
            /\ \A i \in DOMAIN tasks :
                  ( /\ tpc[i] = "wait"
                    /\ tIdx[i] \in DOMAIN tasks[i].depends
                    /\ HasChan(tasks[i].depends[tIdx[i]]) )
                      => "canceled" \in WaitSelect(tasks[i].depends[tIdx[i]])
            /\ (runpc = "wait" /\ runIdx \in DOMAIN tasks)
                  => "canceled" \in WaitSelect(tasks[runIdx].name))
    /\ canceled ~> [](runpc # "wait" /\ \A i \in 1..MaxTasks : ~InWait(i))

\* C15 witness: a task was waiting on a signal that is still not closed when
\* the context was canceled; its wait returned the cancellation error, no
\* task is left in wait, and run has returned.
C15_Witness ==
    /\ \E j \in DOMAIN tasks :
          /\ waitRes[j] = "canceled"
          /\ tIdx[j] \in DOMAIN tasks[j].depends
          /\ ~IsClosed(tasks[j].depends[tIdx[j]])
    /\ \A i \in DOMAIN tasks : tpc[i] \notin {"unstarted", "wait"}
    /\ runpc = "returned" /\ runErr = "canceled"


\* the names task i waits on
Depends(i) == Range(tasks[i].depends)

C17_WaitReady ==
    /\ [](wrRes = "true" =>
            /\ healthChecker
            /\ \A k \in DOMAIN tasks : IsClosed(tasks[k].name)
            /\ wrPoll = "ok")
    /\ [](wrRes = "false" => canceled)
    /\ [](healthChecker => \A k \in DOMAIN tasks : IsClosed(tasks[k].name))
    /\ []((wrpc = "returned") = (wrRes # "none"))
    /\ [][(wrpc # "returned" /\ wrpc' = "returned") =>
             \/ /\ wrpc = "check" /\ wrRes' = "true"
                /\ healthChecker /\ wrPoll' = "ok"
             \/ /\ wrpc = "select" /\ wrRes' = "false"
                /\ canceled]_vars
    /\ [][(wrpc = "check" /\ wrpc' # "check" /\ ~(healthChecker /\ wrPoll' = "ok"))
             => wrpc' = "select"]_vars

\* C17 witness: three tasks became ready, run installed the aggregator and
\* blocks on ctx.Done(), and WaitReady returned true after an all-"OK" poll,
\* the context not canceled.
C17_Witness ==
    /\ Len(tasks) = 3
    /\ wrRes = "true" /\ wrPoll = "ok"
    /\ healthChecker /\ ~canceled
    /\ runpc = "blocked"


\* C18 as stated: every task whose Run returned an error, and whose
\* goroutine has finished with it, is in the log of failed tasks.
C18_Original ==
    \A i \in DOMAIN tasks :
        (runRet[i] = "err" /\ tpc[i] = "done")
            => tasks[i].name \in Range(failLog)

\* C18 amended: fail logs the task (its name with the error, one log entry)
\* exactly when it finds the context not yet canceled: a task whose Run
\* returned an error is logged when fail's check saw a live context, and is
\* not logged when the context was already canceled; so a task whose wait
\* ended with the cancellation error is never logged, and every entry names
\* a task whose Run failed or whose background worker ended.
C18_LoggedUnlessCanceled ==
    /\ [][\A i \in 1..MaxTasks :
             (i \in DOMAIN tasks /\ tpc[i] = "failcheck" /\ tpc'[i] # "failcheck")
                => IF canceled
                   THEN tpc'[i] = "done" /\ failLog' = failLog
                   ELSE tpc'[i] = "failcancel"]_vars
    /\ [][\A i \in 1..MaxTasks :
             (i \in DOMAIN tasks /\ tpc[i] = "failcancel" /\ tpc'[i] # "failcancel")
                => /\ tpc'[i] = "done"
                   /\ failLog' = Append(failLog, tasks[i].name)
                   /\ canceled']_vars
    /\ [](\A i \in DOMAIN tasks :
             waitRes[i] = "canceled" => tasks[i].name \notin Range(failLog))
    /\ [](\A k \in DOMAIN failLog : \E i \in DOMAIN tasks :
             /\ tasks[i].name = failLog[k]
             /\ (runRet[i] = "err" \/ wpc[i] = "done"))

\* C18 witness: the own work of two tasks failed; the first was logged, the
\* second found the context canceled and was not.
C18_Witness ==
    \E i, j \in DOMAIN tasks :
        /\ i # j
        /\ runRet[i] = "err" /\ waitRes[i] = "nil" /\ tpc[i] = "done"
        /\ runRet[j] = "err" /\ waitRes[j] = "nil" /\ tpc[j] = "done"
        /\ failLog = <<tasks[i].name>>


\* C19: whichever step of autofill failed, run has returned that step's
\* error, with no readiness signal allocated and no task's Run invoked.
C19_AutofillFailureReturned ==
    afFailure # "none" =>
        /\ runpc = "returned"
        /\ runErr = afFailure
        /\ tasksReady = <<>>
        /\ \A i \in DOMAIN tasks : tpc[i] = "unstarted" /\ runRet[i] = "none"


(***************************************************************************)
(* Properties of autofillConfig.                                           *)
(***************************************************************************)
\* C20: within one run of autofill nextPort never returns a port twice: the
\* ports it returned are pairwise different and are exactly the ports marked
\* used; a port is returned only if it was not marked used, and is marked
\* then; an offered port that is marked used is rejected, nothing is
\* recorded or written for it and the same allocation is tried again.
C20_PortsNeverRepeat ==
    /\ [](\A i, j \in DOMAIN portLog : portLog[i] = portLog[j] => i = j)
    /\ [](usedPort = Range(portLog))
    /\ [][portLog' # portLog =>
             \E p \in Offers :
                /\ p \notin usedPort
                /\ portLog' = Append(portLog, p)
                /\ usedPort' = usedPort \cup {p}]_vars
    /\ [][retries' # retries =>
             UNCHANGED <<afpc, afIdx, usedPort, portLog, cluster, cfgOut>>]_vars

\* C20 witness: autofill finished after at least ten ports were returned for
\* the listen host and at least one offered port was rejected as used.
C20_Witness ==
    /\ afpc = "done"
    /\ Len(portLog) >= 10
    /\ retries >= 1


\* C21: when autofillConfig has succeeded, each of the four secrets that was
\* non-empty in the input is what it was, and each that was empty is a string
\* of 64 hexadecimal digits; the secrets do not change before or after the
\* step that fills them.
C21_Secrets ==
    /\ afpc \in {"key", "test", "volumes", "db", "store", "done"} =>
          \A n \in SecretNames :
             IF cfgIn.secrets[n] # NoSecret
             THEN cluster.secrets[n] = cfgIn.secrets[n]
             ELSE cluster.secrets[n].hex /\ cluster.secrets[n].len = 64
    /\ afpc \in {"cluster", "controller", "svcext", "svcint", "secrets"} =>
          cluster.secrets = cfgIn.secrets
    /\ afpc = "done" => cfgOut[1].secrets = cluster.secrets

\* autofillConfig has returned nil for an input with a given root token and
\* three empty secrets
C21_Witness ==
    /\ afpc = "done"
    /\ cfgIn.secrets["root"] = GivenSecret
    /\ cfgIn.secrets["management"] = NoSecret
    /\ cfgOut[1].secrets["root"] = GivenSecret
    /\ cfgOut[1].secrets["management"].len = 64

\* the loop over the services has ended and nothing after it has touched the
\* internal URLs yet
AfterServiceLoop == afpc \in {"secrets", "key", "test"}

\* the only internal URL of service s is an http URL on the listen host with
\* a port that nextPort returned during this call
OneAutoInternalURL(s) ==
    \E p \in Range(portLog) : cluster.int[s] = {URL("http", "listen", p)}

\* C22 as stated: after the loop over the services, in every run mode, every
\* service without an internal URL in the input has exactly one, http with an
\* auto-chosen port, and every other service has the ones it had.
C22_Original ==
    AfterServiceLoop =>
       \A s \in ServiceNames :
          IF cfgIn.int[s] = {}
          THEN OneAutoInternalURL(s)
          ELSE cluster.int[s] = cfgIn.int[s]

\* C22, amended: that holds for every service but DispatchCloud under run
\* mode "test", which the loop passes over: its URLs, external and internal,
\* stay what the input gave, empty included.  Outside "test" the internal
\* URLs are still those when autofillConfig returns.
C22_InternalURLs ==
    /\ AfterServiceLoop =>
          \A s \in ServiceNames :
             IF s = "DispatchCloud" /\ clusterType = "test"
             THEN /\ cluster.int[s] = cfgIn.int[s]
                  /\ cluster.ext[s] = cfgIn.ext[s]
             ELSE IF cfgIn.int[s] = {}
             THEN OneAutoInternalURL(s)
             ELSE cluster.int[s] = cfgIn.int[s]
    /\ afpc = "done" /\ clusterType # "test" =>
          \A s \in ServiceNames :
             /\ Cardinality(cfgOut[1].int[s]) >= 1
             /\ cfgIn.int[s] # {} => cfgOut[1].int[s] = cfgIn.int[s]
             /\ cfgIn.int[s] = {} => Cardinality(cfgOut[1].int[s]) = 1

\* under "test" the loop has ended on an input that gives the keepstore URL
\* only: DispatchCloud has none, Health has one
C22_Witness ==
    /\ AfterServiceLoop
    /\ clusterType = "test"
    /\ cfgIn = PartialCluster
    /\ cluster.int["DispatchCloud"] = {}
    /\ cluster.int["Keepstore"] = cfgIn.int["Keepstore"]
    /\ Cardinality(cluster.int["Health"]) = 1

\* the keepstore internal URLs when the loop over the services has ended
KeepstoreAfterLoop ==
    IF cfgIn.int["Keepstore"] = {} THEN 1
    ELSE Cardinality(cfgIn.int["Keepstore"])

\* one Directory volume for each keepstore internal URL: every volume is
\* reached through one of the URLs, no two volumes share a URL or a number
\* (the name and the backing directory are printed from the number), and
\* every backing directory exists
VolumePerKeepstoreURL(c) ==
    /\ Cardinality(c.volumes) = Cardinality(c.int["Keepstore"])
    /\ {v.url : v \in c.volumes} = c.int["Keepstore"]
    /\ \A v, w \in c.volumes : v # w => v.url # w.url /\ v.num # w.num
    /\ \A v \in c.volumes : v.num \in dirs

\* C23: when autofillConfig has returned nil under run mode "test", the
\* keepstore service has one internal URL more than the loop over the
\* services left it, there is one Directory volume for each of its URLs, with
\* URLs, names and directories all different and every directory present;
\* from an input without keepstore URLs that is two URLs and two volumes.
C23_TestMode ==
    afpc = "done" /\ clusterType = "test" =>
       /\ Cardinality(cfgOut[1].int["Keepstore"]) = KeepstoreAfterLoop + 1
       /\ VolumePerKeepstoreURL(cfgOut[1])
       /\ cfgIn.int["Keepstore"] = {} =>
             /\ Cardinality(cfgOut[1].int["Keepstore"]) = 2
             /\ Cardinality(cfgOut[1].volumes) = 2

\* the part of C23 that holds on every input: the volumes match the keepstore
\* URLs one for one, and an input without keepstore URLs ends with two and
\* two; the URL added under "test" is a new one unless the input gave
\* keepstore URLs
C23_VolumesMatch ==
    afpc = "done" /\ clusterType = "test" =>
       /\ VolumePerKeepstoreURL(cfgOut[1])
       /\ Cardinality(cfgOut[1].int["Keepstore"])
             \in {KeepstoreAfterLoop, KeepstoreAfterLoop + 1}
       /\ cfgIn.int["Keepstore"] = {} =>
             /\ Cardinality(cfgOut[1].int["Keepstore"]) = 2
             /\ Cardinality(cfgOut[1].volumes) = 2

\* autofillConfig has returned nil under "test" on the configuration that is
\* empty but for its cluster identifier
EmptyTestDone == afpc = "done" /\ cfgIn = EmptyCluster /\ clusterType = "test"

\* C24 as stated: from the empty configuration under "test", autofill gives
\* an https controller external URL and a PostgreSQL connection with
\* dbname=arvados_test.
C24_Original ==
    EmptyTestDone =>
       /\ cfgOut[1].ext["Controller"].scheme = "https"
       /\ cfgOut[1].pg.dbname = "arvados_test"

\* C24, amended: the controller external URL is https in any case, with the
\* port of ControllerAddr or, for port 0, the first auto-chosen port; the
\* PostgreSQL connection has dbname=arvados_test and an auto-chosen port when
\* OwnTemporaryDatabase is set, and is left as the input gave it otherwise.
C24_EmptyTest ==
    EmptyTestDone =>
       /\ cfgOut[1].ext["Controller"].scheme = "https"
       /\ cfgOut[1].ext["Controller"].port =
             IF ctrlAddr.port = 0 THEN portLog[1] ELSE ctrlAddr.port
       /\ IF ownDB
          THEN /\ cfgOut[1].pg.dbname = "arvados_test"
               /\ cfgOut[1].pg.port \in Range(portLog)
          ELSE cfgOut[1].pg = cfgIn.pg

\* the scenario has run to its end with OwnTemporaryDatabase set
C24_Witness ==
    /\ EmptyTestDone
    /\ ownDB
    /\ cfgOut[1].pg.dbname = "arvados_test"
    /\ cfgOut[1].ext["Controller"] = URL("https", "listen", portLog[1])

(***************************************************************************)
(* Properties of dedupEnv and of the child's environment.                  *)
(***************************************************************************)
\* the key of an entry: what stands before its first '='
EnvKey(kv) == SubSeq(kv, 1, Index(kv, "="))

\* KEY=VALUE with a non-empty KEY
WellFormed(kv) == Len(kv) >= 2 /\ kv[1] # "=" /\ "=" \in Range(kv)

AllWellFormed(L) == \A i \in 1..Len(L) : WellFormed(L[i])

EnvKeys(L) == {EnvKey(L[i]) : i \in 1..Len(L)}

\* the places of L that hold the first entry of their key
Firsts(L) ==
    {i \in 1..Len(L) : \A j \in 1..(i - 1) : EnvKey(L[j]) # EnvKey(L[i])}

\* the n-th smallest member of a set of numbers
Nth(S, n) == CHOOSE i \in S : Cardinality({j \in S : j <= i}) = n

\* the first entry of L with key k
FirstEntry(L, k) ==
    L[CHOOSE i \in Firsts(L) : EnvKey(L[i]) = k]

\* how many entries of L have key k
Occurrences(L, k) == Cardinality({n \in 1..Len(L) : EnvKey(L[n]) = k})

\* dedupEnv has returned
EnvSet == envpc = "set"

\* C25: for a list of well-formed entries, what dedupEnv returns is the
\* input with some entries left out, in the input's order; every key of the
\* input is there exactly once and no other key is; the entry kept for a key
\* is the first the input has for it.  For A=1, A=2 the result is A=1.
C25_FirstWins ==
    /\ EnvSet =>
          /\ Len(cmdEnv) = Cardinality(Firsts(envIn))
          /\ \A n \in 1..Len(cmdEnv) : cmdEnv[n] = envIn[Nth(Firsts(envIn), n)]
          /\ \A k \in EnvKeys(envIn) :
                /\ Occurrences(cmdEnv, k) = 1
                /\ \E n \in 1..Len(cmdEnv) : cmdEnv[n] = FirstEntry(envIn, k)
          /\ EnvKeys(cmdEnv) \subseteq EnvKeys(envIn)
    /\ DedupEnv(<<(<<"A", "=", "1">>), (<<"A", "=", "2">>)>>)
          = [panic |-> FALSE, out |-> <<(<<"A", "=", "1">>)>>]

\* dedupEnv has returned A=1, B=1 for A=1, B=1, A=2, B=
C25_Witness ==
    /\ EnvSet
    /\ envIn = <<(<<"A", "=", "1">>), (<<"B", "=", "1">>),
                 (<<"A", "=", "2">>), (<<"B", "=">>)>>
    /\ cmdEnv = <<(<<"A", "=", "1">>), (<<"B", "=", "1">>)>>

\* C26: for a list L of well-formed entries, dedupEnv of dedupEnv(L) is
\* dedupEnv(L), and dedupEnv(L) is L when no key is in L twice.
C26_Idempotent ==
    envpc \in {"merged", "set", "panic"} /\ AllWellFormed(envIn) =>
       LET once == DedupEnv(envIn)
       IN  /\ ~once.panic
           /\ DedupEnv(once.out) = once
           /\ Firsts(envIn) = 1..Len(envIn) => once.out = envIn
           /\ EnvSet => DedupEnv(cmdEnv).out = cmdEnv

\* dedupEnv has shortened a list with a repeated key, and leaves its own
\* result as it is
C26_Witness ==
    /\ EnvSet
    /\ Len(cmdEnv) = 2
    /\ Len(envIn) = 4
    /\ DedupEnv(cmdEnv) = [panic |-> FALSE, out |-> cmdEnv]

\* an entry without any '='
LacksSeparator(kv) == "=" \notin Range(kv)

\* C27: dedupEnv panics when any entry of its input has no '=', wherever
\* the entry stands, also behind an entry whose key was seen before; it does
\* not panic when every entry is KEY=VALUE with a non-empty KEY.
C27_PanicOnMalformed ==
    /\ envpc \in {"merged", "set", "panic"} =>
          /\ (\E i \in 1..Len(envIn) : LacksSeparator(envIn[i]))
                => DedupEnv(envIn).panic
          /\ AllWellFormed(envIn) => ~DedupEnv(envIn).panic
    /\ envpc = "set" => \A i \in 1..Len(envIn) : ~LacksSeparator(envIn[i])
    /\ envpc = "panic" => ~AllWellFormed(envIn)

\* dedupEnv has panicked on an entry without '=' that stands behind two
\* entries of one key, its own
C27_Witness ==
    /\ envpc = "panic"
    /\ envIn = <<(<<"A", "=", "1">>), (<<"A", "=", "2">>), (<<"A">>)>>

\* C28: the environment of the child has, for every key of the caller's
\* extra entries, the first extra entry of that key, and for every other key
\* of the supervisor's list the first entry the list has for it, each key
\* once and no others; RunProgram leaves the supervisor's list as it was.
C28_ChildEnv ==
    /\ [](EnvSet =>
            /\ \A k \in EnvKeys(rpEnv) \cup EnvKeys(environ) :
                  /\ Occurrences(cmdEnv, k) = 1
                  /\ \E n \in 1..Len(cmdEnv) :
                        cmdEnv[n] = IF k \in EnvKeys(rpEnv)
                                    THEN FirstEntry(rpEnv, k)
                                    ELSE FirstEntry(environ, k)
            /\ EnvKeys(cmdEnv) \subseteq EnvKeys(rpEnv) \cup EnvKeys(environ))
    /\ [][environ' = environ]_vars

\* the child got A=2 from the caller, over the supervisor's A=1, and B=1 from
\* the supervisor
C28_Witness ==
    /\ EnvSet
    /\ rpEnv = <<(<<"A", "=", "2">>)>>
    /\ environ = <<(<<"A", "=", "1">>), (<<"B", "=", "1">>)>>
    /\ cmdEnv = <<(<<"A", "=", "2">>), (<<"B", "=", "1">>)>>

(***************************************************************************)
(* Properties of the scheduler, continued.                                 *)
(***************************************************************************)
\* task i lies on a dependency cycle of the list
OnCycle(i) ==
    i \in DOMAIN tasks /\ Reaches(tasks, tasks[i].name, tasks[i].name, Len(tasks))

\* run has made the readiness signals of a list with a dependency cycle
CyclicScheduled == ~Acyclic(tasks) /\ tasksReady # <<>>

\* C29: the scheduler detects no cycle.  With a dependency cycle in the
\* list (a task waiting on itself included), no task on the cycle ever
\* begins its work, closes its signal or is logged as failed; run never gets
\* past its wait, and returns nothing but the cancellation error, after the
\* context was canceled; when every task is on a cycle only a cancellation
\* from outside can do that, and nothing at all is logged.  A run that
\* returns without a cancellation returns an error of its set-up, never one
\* about the cycle.  Once the context is canceled run does return the
\* cancellation error.
C29_NoCycleDetection ==
    /\ [](CyclicScheduled =>
            /\ \A i \in DOMAIN tasks :
                  OnCycle(i) =>
                     /\ closes[tasks[i].name] = 0
                     /\ tpc[i] \notin {"work", "close"}
                     /\ runRet[i] # "nil"
                     /\ \A k \in DOMAIN failLog : failLog[k] # tasks[i].name
            /\ runpc \in {"spawn", "wait", "returned"}
            /\ runpc = "returned" => runErr = "canceled" /\ canceled
            /\ (\A i \in DOMAIN tasks : OnCycle(i)) =>
                  /\ failLog = <<>>
                  /\ cancelCause \in {"none", "external"})
    /\ [](~Acyclic(tasks) /\ runpc = "returned" /\ ~canceled
            => runErr \in {"setup"} \cup AutofillFailures)
    /\ (CyclicScheduled /\ canceled)
          ~> (runpc = "returned" /\ runErr = "canceled")

\* A and B wait on each other; run sat in its wait until Stop canceled the
\* context and has returned the cancellation error, with neither signal
\* closed and nothing logged
C29_Witness ==
    /\ tasks = <<Task("A", <<"B">>), Task("B", <<"A">>)>>
    /\ runpc = "returned" /\ runErr = "canceled"
    /\ cancelCause = "external"
    /\ closes["A"] = 0 /\ closes["B"] = 0
    /\ tpc[1] = "done" /\ tpc[2] = "done"
    /\ failLog = <<>>

\* C30: whenever run has ended with an error, a WaitReady call that is under
\* way or begins later eventually returns (nil, false).
C30_WaitReadyEnds ==
    (runpc = "returned" /\ runErr # "none" /\ wrpc \in {"select", "check"})
        ~> (wrpc = "returned" /\ wrRes = "false")

\* the part of C30 that holds: once the context is canceled, as it is by a
\* task failure or by Stop, a WaitReady call under way returns, unless the
\* process dies of a panic first
C30_EndsAfterCancel ==
    (canceled /\ wrpc \in {"select", "check"})
        ~> (wrpc = "returned" \/ runpc = "panic" \/ panicked)

\* C31: a wait that begins with the shared context already canceled, on one
\* name or more, passes no readiness signal, closed or not, and so never
\* returns nil: the next step of that wait returns the cancellation error, and
\* the dependent does not begin its work.
C31_CanceledWaitFails ==
    [][\A i \in 1..MaxTasks :
          ( /\ canceled
            /\ InWait(i)
            /\ tIdx[i] = 1
            /\ Len(tasks[i].depends) >= 1
            /\ tpc'[i] # tpc[i] \/ tIdx'[i] # tIdx[i] )
             => /\ tIdx'[i] = 1
                /\ tpc'[i] = "failcheck"
                /\ waitRes'[i] \in {"canceled", "nosuchtask"}]_vars

(***************************************************************************)
(* Properties of RunProgram, continued.                                    *)
(***************************************************************************)
\* RunProgram has just been called and its context is canceled already
CanceledAtCall == rppc = "pipes" /\ rpCtxDone

\* C32 as stated: called with a context that is canceled already,
\* RunProgram still starts the child (unless making the pipes or the start
\* itself fails), the watcher then sends the child SIGTERM, and a call that
\* returns after the start returns the cancellation error.
C32_Original ==
    /\ CanceledAtCall ~> (process \/ rpErr \in {"pipe", "start"})
    /\ CanceledAtCall ~> (sigterms > 0 \/ rpErr \in {"pipe", "start"})
    /\ [](CanceledAtCall =>
             [](rppc = "returned" /\ process => rpErr = "canceled"))

\* C32, amended: RunProgram looks at the context only after cmd.Wait().  It returns
\* the cancellation error only when the child was started, has exited and
\* been waited for.  Called with a context that is canceled already, it
\* still goes on to start the child (unless making the pipes or the start
\* itself fails); the watcher then sends SIGTERM, which happens only once
\* the process handle exists, unless the call has returned before the
\* watcher looks again (a child that ends by itself), so a child that would
\* not end by itself is always sent it; whenever the call returns after the
\* start it returns the cancellation error, and it does return if the child
\* ever exits.
C32_CanceledAtCall ==
    /\ [](rpErr = "canceled" =>
             process /\ child = "reaped" /\ rpCtxAtResult)
    /\ [](sigterms > 0 => process)
    /\ CanceledAtCall ~> (process \/ rpErr \in {"pipe", "start"})
    /\ CanceledAtCall ~> (sigterms > 0 \/ rppc = "returned")
    /\ (CanceledAtCall /\ childKind = "service")
          ~> (sigterms > 0 \/ rpErr \in {"pipe", "start"})
    /\ [](CanceledAtCall =>
             [](rppc = "returned" /\ process => rpErr = "canceled"))
    /\ (CanceledAtCall /\ childKind # "stubborn") ~> (rppc = "returned")

\* the context was canceled before cmd.Start (the watcher found no process
\* and slept); the child, a service, was started all the same, was sent
\* SIGTERM, exited with a signal status, and RunProgram returned the
\* cancellation error
C32_Witness ==
    /\ polled
    /\ childKind = "service" /\ process
    /\ sigterms > 0
    /\ childStatus = "signaled"
    /\ rppc = "returned" /\ rpErr = "canceled"

(***************************************************************************)
(* Properties of the scheduler: the log of failed tasks.                   *)
(***************************************************************************)
\* C33: at most one "task failed" entry is logged in a run, whatever the
\* interleaving of the failing tasks, and a task whose wait returned the
\* cancellation error is not logged.
C33_OneFailureLogged ==
    /\ Len(failLog) <= 1
    /\ \A i \in DOMAIN tasks :
          waitRes[i] = "canceled" => tasks[i].name \notin Range(failLog)

(***************************************************************************)
(* Properties of autofillConfig, continued.                                *)
(***************************************************************************)
\* the endpoints of configuration c on the listen host that name a port:
\* external URLs, internal URLs and the database
ListenEndpoints(c) ==
    {<<"ext", s, c.ext[s].port>> :
        s \in {t \in ServiceNames :
                  c.ext[t].host = "listen" /\ c.ext[t].port # 0}}
      \cup UNION {{<<"int", s, u.port>> :
                      u \in {v \in c.int[s] : v.host = "listen" /\ v.port # 0}}
                     : s \in ServiceNames}
      \cup (IF c.pg.port # 0 THEN {<<"db", "PostgreSQL", c.pg.port>>} ELSE {})

\* C34: when autofillConfig has returned nil, no two endpoints on the listen
\* host have the same port, whether the port was chosen by nextPort, given
\* through ControllerAddr or present in the input.
C34_PortsDistinct ==
    afpc = "done" =>
       \A e, f \in ListenEndpoints(cfgOut[1]) : e # f => e[3] # f[3]

\* the part of C34 that holds: the ports chosen during this call differ from
\* one another
C34_ChosenPortsDistinct ==
    afpc = "done" =>
       \A e, f \in ListenEndpoints(cfgOut[1]) :
          (e # f /\ e[3] \in usedPort /\ e[3] \notin InputPorts
                 /\ f[3] \in usedPort /\ f[3] \notin InputPorts) => e[3] # f[3]

(***************************************************************************)
(* Properties of setEnv, prependEnv and cleanEnv.                          *)
(***************************************************************************)
\* the value of a well-formed entry: what follows its first '='
EnvValue(kv) == SubSeq(kv, Index(kv, "=") + 2, Len(kv))

\* the deduplicated list of env
Deduped(env) == DedupEnv(env).out

HasKey(env, k) == k \in EnvKeys(Deduped(env))

\* the value the deduplicated list of env gives key k
WinningValue(env, k) ==
    LET d == Deduped(env)
    IN  EnvValue(d[CHOOSE i \in 1..Len(d) : EnvKey(d[i]) = k])

\* the deduplicated list of env without the keys of T
Others(env, T) == SelectSeq(Deduped(env), LAMBDA kv : EnvKey(kv) \notin T)

\* the keys of the entries of env that start with one of the prefixes
KeysUnder(env, prefixes) ==
    {EnvKey(env[i]) :
        i \in {j \in 1..Len(env) :
                  \E k \in 1..Len(prefixes) : HasPrefix(env[j], prefixes[k])}}

\* C36: on a list that dedupEnv accepts, each call leaves a list dedupEnv
\* accepts, in which: after setEnv(key, val) the key's value is val; after
\* prependEnv(key, prepend) it is prepend followed by the key's previous
\* winning value, or prepend alone if the key was absent; after
\* cleanEnv(prefixes) no entry starts with one of the prefixes; and the
\* entries of every other key stand in the deduplicated list as before,
\* with their values and in their order.
C36_EnvOperations ==
    [][(envCalls' = envCalls + 1 /\ ~DedupEnv(environ).panic) =>
          /\ ~DedupEnv(environ').panic
          /\ envOp'.op = "setEnv" =>
                /\ HasKey(environ', envOp'.key)
                /\ WinningValue(environ', envOp'.key) = envOp'.val
                /\ Others(environ', {envOp'.key}) = Others(environ, {envOp'.key})
          /\ envOp'.op = "prependEnv" =>
                /\ HasKey(environ', envOp'.key)
                /\ WinningValue(environ', envOp'.key) =
                      envOp'.val \o (IF HasKey(environ, envOp'.key)
                                     THEN WinningValue(environ, envOp'.key)
                                     ELSE <<>>)
                /\ Others(environ', {envOp'.key}) = Others(environ, {envOp'.key})
          /\ envOp'.op = "cleanEnv" =>
                /\ \A i \in 1..Len(environ') :
                      \A k \in 1..Len(envOp'.prefixes) :
                         ~HasPrefix(environ'[i], envOp'.prefixes[k])
                /\ \A i \in 1..Len(Deduped(environ')) :
                      \A k \in 1..Len(envOp'.prefixes) :
                         ~HasPrefix(Deduped(environ')[i], envOp'.prefixes[k])
                /\ Others(environ', KeysUnder(environ, envOp'.prefixes))
                      = Others(environ, KeysUnder(environ, envOp'.prefixes))]_vars

\* C36 witness: on the list A=1, A=2 a second call, prependEnv("A", "2"),
\* has rewritten the first entry and left the second.
C36_Witness ==
    /\ envCalls >= 2
    /\ envOp = EnvOp("prependEnv", <<"A">>, <<"2">>, <<>>)
    /\ environ = << <<"A", "=", "2", "1">>, <<"A", "=", "2">> >>

(***************************************************************************)
(* Properties of run's set-up: configuration file and environment.         *)
(***************************************************************************)
\* run has started an external program or a task
Started == spawned \/ \E i \in DOMAIN tasks : tpc[i] # "unstarted"

\* the entry run sets for the configuration file
ConfigEntry == ArvadosPrefix \o <<"CONFIG", "=">> \o ConfigPath

\* super.environ is rebuilt: the only entry that begins with ARVADOS_ is the
\* one run set, and ARVADOS_CONFIG's value is the name of the written file
Rebuilt ==
    /\ \A i \in 1..Len(environ) :
          HasPrefix(environ[i], ArvadosPrefix) => environ[i] = ConfigEntry
    /\ ~DedupEnv(environ).panic
    /\ HasKey(environ, ArvadosPrefix \o <<"CONFIG">>)
    /\ WinningValue(environ, ArvadosPrefix \o <<"CONFIG">>) = configfile
    /\ configfile = ConfigPath

=============================================================================
